---- MODULE Spec2Model ----
(***************************************************************************)
(* State-machine model of the apidog-test tooling:                         *)
(*   - the collection merger   (scripts/merge_test_cases.js, TestCaseMerger)*)
(*   - the forward converter   (scripts/node/convert_scenario.js)          *)
(*   - the reverse converter   (ApidogReverseConverter)                    *)
(*   - the endpoint comparator (compare_endpoints, in merge_test_cases.js) *)
(*                                                                         *)
(* JavaScript values are represented as follows.                           *)
(*   - an optional field is a sequence: <<>> when the key is absent (or    *)
(*     null/undefined), <<v>> when it holds v;                             *)
(*   - array indexes are 1-based here (0-based in the source);             *)
(*   - a test case, as the merger sees it, is a record                     *)
(*       [name, folder, ordering, id, stepIds, useDataSetId, datasets]     *)
(*     where folder is the _folder tag ("" when absent), stepIds is the    *)
(*     sequence of numeric values found under an `id` key inside `steps`   *)
(*     (in Object.entries order), and datasets is apiTestDataSets, each    *)
(*     [id, relatedId, dl] with dl = apiTestDataList[0] =                  *)
(*     [id, dataSetId, relatedId];                                         *)
(*   - Null is a JSON null / array hole inside an items array.             *)
(***************************************************************************)
EXTENDS Integers, Sequences, FiniteSets, TLC

VARIABLES
    apidogFile,                 \* the collection document on disk
    tempFiles,                  \* the JSON test cases in the temp folder, readdir order
    pc,                         \* position of the merger process
    runs,                       \* completed merger invocations
    testCases,                  \* TestCaseMerger.testCases
    usedIds,                    \* TestCaseMerger.usedIds
    nextId,                     \* TestCaseMerger.nextId
    apidogData,                 \* the parsed document being mutated in memory
    existingTestCasesByFolder,  \* name index built before the merge loop
    cursor,                     \* test cases already processed by the merge loop
    processedTestCase,          \* the loop's processedTestCase, <<>> before the first
    sourceDoc,                  \* the document this invocation loaded
    yamlFile,                   \* the scenario document given to the converter
    sourceFile,                 \* the source collection the document may name
    cpc,                        \* position of the converter process
    converter,                  \* the ApidogConverter object
    convTestCaseId,                 \* convert's testCaseId
    convSteps,                      \* convert's steps array
    stepIndex,                  \* steps of the document already converted
    outputFile,                 \* the converted test case written by main(), <<>> before
    reversedYaml,               \* the reverse converter's document, <<>> before
    openApiSpec,                \* the operations of the OpenAPI document's `paths`
    compareApidog,              \* the collection given to the comparator, <<>> when none
    testFiles,                  \* the YAML documents of the test-case directory
    kpc,                        \* position of the comparator process
    openApiEndpoints,           \* the comparator's openApiEndpoints map, in key order
    testedEndpoints,            \* the comparator's testedEndpoints set
    fileIndex,                  \* test-case files already read
    report                      \* the comparator's report, <<>> before

mergeVars == <<apidogFile, tempFiles, pc, runs, testCases, usedIds, nextId,
               apidogData, existingTestCasesByFolder, cursor, processedTestCase,
               sourceDoc>>

convertVars == <<yamlFile, sourceFile, cpc, converter, convTestCaseId, convSteps, stepIndex,
                 outputFile, reversedYaml>>

compareVars == <<openApiSpec, compareApidog, testFiles, kpc, openApiEndpoints,
                 testedEndpoints, fileIndex, report>>

vars == <<mergeVars, convertVars, compareVars>>

-----------------------------------------------------------------------------
(* Bounds of the explored inputs *)

MaxIncoming == 2
MaxRuns == 2
MaxSteps == 2
MaxDatasets == 2
MaxOperations == 2
MaxFiles == 2

(* Program constants *)

MergerFirstId == 10000000
ConverterIdBase == 10000000
ConvertedOrdering == 10
DefaultTimeout == 1000

-----------------------------------------------------------------------------
(* Generic helpers *)

None == <<>>
Some(x) == <<x>>

Range(s) == {s[i] : i \in 1..Len(s)}

SeqsUpTo(S, n) == UNION {[1..k -> S] : k \in 0..n}

RECURSIVE Flatten(_)
Flatten(ss) == IF ss = <<>> THEN <<>> ELSE Head(ss) \o Flatten(Tail(ss))

Null == [null |-> TRUE]

-----------------------------------------------------------------------------
(* TestCaseMerger: the identifier allocator *)

RECURSIVE firstFreeFrom(_, _)
firstFreeFrom(used, n) == IF n \in used THEN firstFreeFrom(used, n + 1) ELSE n

\* getNextId without the loop over the used ids
getNextIdUnchecked(st) ==
    LET v == st.nextId
    IN  [id |-> v,
         st |-> [st EXCEPT !.usedIds = @ \cup {v}, !.nextId = v + 1]]

\* getNextId on allocator state st = [usedIds, nextId, idMap]
getNextId(st) ==
    LET v == firstFreeFrom(st.usedIds, st.nextId)
    IN  [id |-> v,
         st |-> [st EXCEPT !.usedIds = @ \cup {v}, !.nextId = v + 1]]

\* The numeric values under an `id` key of one item, in Object.entries order
\* of the converter's output: steps, id, ..., apiTestDataSets.
RECURSIVE datasetIds(_)
datasetIds(dss) ==
    IF dss = <<>> THEN <<>>
    ELSE <<Head(dss).id, Head(dss).dl.id>> \o datasetIds(Tail(dss))

itemIds(item) ==
    IF item = Null THEN <<>>
    ELSE item.stepIds \o <<item.id>> \o datasetIds(item.datasets)

RECURSIVE folderIds(_)
folderIds(folders) ==
    IF folders = <<>> THEN <<>>
    ELSE Flatten([i \in 1..Len(Head(folders).items) |-> itemIds(Head(folders).items[i])])
         \o folderIds(Head(folders).children)
         \o folderIds(Tail(folders))

\* every numeric id of the document, one entry per place it occurs at
documentIds(doc) == folderIds(doc.apiTestCaseCollection)

\* collectUsedIds: `obj.id && typeof obj.id === 'number'` skips the value 0
collectUsedIds(doc) == {v \in Range(documentIds(doc)) : v # 0}

-----------------------------------------------------------------------------
(* TestCaseMerger.reassignIds *)

\* one `id` entry met by reassignRecursive
reassignId(value, st) ==
    IF value \in st.usedIds
    THEN IF value \in DOMAIN st.idMap
         THEN [v |-> st.idMap[value], st |-> st]
         ELSE LET g == getNextId(st)
              IN  [v |-> g.id,
                   st |-> [g.st EXCEPT !.idMap = (value :> g.id) @@ @]]
    ELSE [v |-> value, st |-> [st EXCEPT !.usedIds = @ \cup {value}]]

RECURSIVE reassignIdSeq(_, _)
reassignIdSeq(ids, st) ==
    IF ids = <<>> THEN [out |-> <<>>, st |-> st]
    ELSE LET h == reassignId(Head(ids), st)
             t == reassignIdSeq(Tail(ids), h.st)
         IN  [out |-> <<h.v>> \o t.out, st |-> t.st]

RECURSIVE reassignDatasets(_, _)
reassignDatasets(dss, st) ==
    IF dss = <<>> THEN [out |-> <<>>, st |-> st]
    ELSE LET d  == Head(dss)
             a  == reassignId(d.id, st)
             b  == reassignId(d.dl.id, a.st)
             nd == [d EXCEPT !.id = a.v, !.dl.id = b.v]
             t  == reassignDatasets(Tail(dss), b.st)
         IN  [out |-> <<nd>> \o t.out, st |-> t.st]

\* reassignIds(testCase) with the merger's usedIds / nextId; only `id` keys
\* are rewritten, every other field is copied
reassignIds(testCase, used, next) ==
    LET st0 == [usedIds |-> used, nextId |-> next, idMap |-> <<>>]
        s   == reassignIdSeq(testCase.stepIds, st0)
        i   == reassignId(testCase.id, s.st)
        d   == reassignDatasets(testCase.datasets, i.st)
    IN  [tc |-> [testCase EXCEPT !.stepIds = s.out, !.id = i.v, !.datasets = d.out],
         usedIds |-> d.st.usedIds,
         nextId |-> d.st.nextId]

-----------------------------------------------------------------------------
(* TestCaseMerger.mergeIntoApidog: preparation of the document and the index *)

EmptyMap == [n \in {} |-> 0]

NewRoot == [name |-> "Root", children |-> <<>>, items |-> <<>>]

NewFolder(folderName) == [name |-> folderName, children |-> <<>>, items |-> <<>>]

\* lines 145-165: make sure apiTestCaseCollection[0] exists
ensureRoot(doc) ==
    IF doc.apiTestCaseCollection = <<>>
    THEN [doc EXCEPT !.apiTestCaseCollection = <<NewRoot>>]
    ELSE doc

rootOf(doc) == doc.apiTestCaseCollection[1]

\* items.forEach((item, index) => map.set(item.name, index)): the last item
\* of a name wins
nameIndex(items) ==
    [n \in {items[i].name : i \in 1..Len(items)} |->
        CHOOSE i \in 1..Len(items) :
            /\ items[i].name = n
            /\ \A j \in 1..Len(items) : items[j].name = n => j <= i]

\* children.forEach(folder => index.set(folder.name, map)): the last folder
\* of a name wins
folderIndex(children) ==
    [f \in {children[i].name : i \in 1..Len(children)} |->
        LET last == CHOOSE i \in 1..Len(children) :
                        /\ children[i].name = f
                        /\ \A j \in 1..Len(children) : children[j].name = f => j <= i
        IN  nameIndex(children[last].items)]

buildIndex(root) ==
    [root |-> nameIndex(root.items), folders |-> folderIndex(root.children)]

\* item.name of a null item throws a TypeError while the index is built
indexThrows(root) ==
    \/ \E i \in 1..Len(root.items) : root.items[i] = Null
    \/ \E c \in 1..Len(root.children) :
          \E i \in 1..Len(root.children[c].items) : root.children[c].items[i] = Null

-----------------------------------------------------------------------------
(* TestCaseMerger.mergeIntoApidog: the merge loop *)

\* items[index] = x; an index past the end leaves holes before it
setAt(items, index, x) ==
    IF index <= Len(items) THEN [items EXCEPT ![index] = x]
    ELSE items \o [k \in 1..(index - Len(items) - 1) |-> Null] \o <<x>>

\* lines 250-265: update the item the index names, or append
updateOrAppend(items, map, tc) ==
    IF tc.name \in DOMAIN map
    THEN [items |-> setAt(items, map[tc.name], tc), map |-> map]
    ELSE [items |-> Append(items, tc),
          map |-> (tc.name :> (Len(items) + 1)) @@ map]

\* findOrCreateFolder: the first child of that name, appended when missing
hasFolder(children, folderName) ==
    \E i \in 1..Len(children) : children[i].name = folderName

\* findOrCreateFolder that appends a folder without looking for one
findOrCreateFolderAlways(children, folderName) ==
    LET cs == Append(children, NewFolder(folderName))
    IN  [children |-> cs,
         at |-> CHOOSE i \in 1..Len(cs) :
                    /\ cs[i].name = folderName
                    /\ \A j \in 1..(i - 1) : cs[j].name # folderName]

findOrCreateFolder(children, folderName) ==
    LET cs == IF hasFolder(children, folderName) THEN children
              ELSE Append(children, NewFolder(folderName))
    IN  [children |-> cs,
         at |-> CHOOSE i \in 1..Len(cs) :
                    /\ cs[i].name = folderName
                    /\ \A j \in 1..(i - 1) : cs[j].name # folderName]

\* one iteration of `for (const { file, data } of this.testCases)`, given the
\* result r of reassignIds(data)
placeOne(data, doc, idx, r) ==
    LET processed  == [r.tc EXCEPT !.folder = ""]
        folderName == data.folder
        root       == rootOf(doc)
    IN  IF folderName # ""
        THEN LET f   == findOrCreateFolder(root.children, folderName)
                 map == IF folderName \in DOMAIN idx.folders
                        THEN idx.folders[folderName] ELSE EmptyMap
                 u   == updateOrAppend(f.children[f.at].items, map, processed)
                 cs  == [f.children EXCEPT ![f.at].items = u.items]
             IN  [doc |-> [doc EXCEPT !.apiTestCaseCollection[1].children = cs],
                  idx |-> [idx EXCEPT !.folders = (folderName :> u.map) @@ @],
                  processed |-> processed,
                  usedIds |-> r.usedIds, nextId |-> r.nextId]
        ELSE LET u == updateOrAppend(root.items, idx.root, processed)
             IN  [doc |-> [doc EXCEPT !.apiTestCaseCollection[1].items = u.items],
                  idx |-> [idx EXCEPT !.root = u.map],
                  processed |-> processed,
                  usedIds |-> r.usedIds, nextId |-> r.nextId]

mergeOne(data, doc, idx, used, next) ==
    placeOne(data, doc, idx, reassignIds(data, used, next))

-----------------------------------------------------------------------------
(* TestCaseMerger.mergeIntoApidog: the final sort *)

\* a.ordering || 0
orderingOf(item) == IF item.ordering = None THEN 0 ELSE item.ordering[1]

\* x goes after every element that does not compare greater: stable
RECURSIVE insertByOrdering(_, _)
insertByOrdering(sorted, x) ==
    IF sorted = <<>> THEN <<x>>
    ELSE IF orderingOf(x) < orderingOf(Head(sorted)) THEN <<x>> \o sorted
    ELSE <<Head(sorted)>> \o insertByOrdering(Tail(sorted), x)

RECURSIVE sortPresent(_, _)
sortPresent(items, acc) ==
    IF items = <<>> THEN acc
    ELSE sortPresent(Tail(items), insertByOrdering(acc, Head(items)))

\* Array.prototype.sort: the comparator orders the present items, holes end
\* up behind them
sortByOrdering(items) ==
    LET present == SelectSeq(items, LAMBDA it : it # Null)
        holes   == SelectSeq(items, LAMBDA it : it = Null)
    IN  sortPresent(present, <<>>) \o holes

\* lines 268-284: the root's items and the items of each child folder of the root
sortCollection(doc) ==
    LET root == rootOf(doc)
        cs   == [c \in 1..Len(root.children) |->
                    [root.children[c] EXCEPT !.items = sortByOrdering(@)]]
    IN  [doc EXCEPT !.apiTestCaseCollection[1].items = sortByOrdering(@),
                    !.apiTestCaseCollection[1].children = cs]

-----------------------------------------------------------------------------
(* ApidogConverter: JavaScript values, identifiers and Map objects *)

\* scalar values of parameters, overrides and assertions; NumberZero is the
\* number 0, every other value is a string
EmptyString == ""
NumberZero == "<0>"
Falsy == {EmptyString, NumberZero}

\* `v || d` on an optional value
orDefault(v, d) == IF v = None \/ v[1] \in Falsy THEN d ELSE v[1]

\* String.prototype.toLowerCase on the strings of the explored inputs
toLowerCase(s) ==
    CASE s = "GET" -> "get"
      [] s = "POST" -> "post"
      [] s = "X-Token" -> "x-token"
      [] s = "User-Agent" -> "user-agent"
      [] s = "K" -> "k"
      [] OTHER -> s

\* String.prototype.toUpperCase on the method names of the explored inputs
toUpperCase(s) ==
    CASE s = "get" -> "GET"
      [] s = "post" -> "POST"
      [] OTHER -> s

\* `Step ${stepNumber}`
defaultStepName(n) ==
    CASE n = 1 -> "Step 1" [] n = 2 -> "Step 2" [] n = 3 -> "Step 3" [] OTHER -> "Step n"

\* `step.number || 1`; an absent number is 0 here
numberOr1(n) == IF n = 0 THEN 1 ELSE n

\* the converter object right after `new ApidogConverter()`; testCases is
\* <<>> while this.testCases / this.testCasesById are undefined
NewConverter ==
    [nextId |-> ConverterIdBase, apiItems |-> <<>>, apiByPath |-> <<>>,
     apiDefinitions |-> <<>>, testCases |-> None]

generateId(conv) ==
    [id |-> conv.nextId + 1, conv |-> [conv EXCEPT !.nextId = @ + 1]]

\* a Map is the sequence of its [key, value] entries in insertion order
mapHas(map, key) == \E i \in 1..Len(map) : map[i].key = key

mapGet(map, key) ==
    IF mapHas(map, key)
    THEN Some(map[CHOOSE i \in 1..Len(map) : map[i].key = key].value)
    ELSE None

mapSet(map, key, value) ==
    IF mapHas(map, key)
    THEN [i \in 1..Len(map) |-> IF map[i].key = key THEN [key |-> key, value |-> value] ELSE map[i]]
    ELSE Append(map, [key |-> key, value |-> value])

Min(S) == CHOOSE x \in S : \A y \in S : x <= y

-----------------------------------------------------------------------------
(* ApidogConverter.loadSourceApidog: the endpoint and test-case indexes *)

\* The endpoint items indexApiCollection visits, in visiting order, each with
\* its full path (a sequence of path segments).  conv.apiItems holds the
\* parsed items; an index entry refers to an item by its position there, so
\* that two index entries for one item share it.
RECURSIVE apiEntries(_, _)
RECURSIVE itemEntries(_, _)

\* the loop over collection.items: an item with an `api` is an endpoint, an
\* item with `items` is a nested collection
itemEntries(items, currentPath) ==
    IF items = <<>> THEN <<>>
    ELSE (IF "api" \in DOMAIN Head(items)
          THEN <<[path |-> currentPath \o <<Head(items).name>>, item |-> Head(items)]>>
          ELSE IF "items" \in DOMAIN Head(items)
          THEN apiEntries(<<Head(items)>>, currentPath)
          ELSE <<>>)
         \o itemEntries(Tail(items), currentPath)

apiEntries(collections, parentPath) ==
    IF collections = <<>> THEN <<>>
    ELSE itemEntries(Head(collections).items, parentPath \o <<Head(collections).name>>)
         \o apiEntries(Head(collections).children, parentPath \o <<Head(collections).name>>)
         \o apiEntries(Tail(collections), parentPath)

\* the body of the loop of indexApiCollection for the k-th visited item
indexApiItem(conv, entry, k) ==
    LET existing == mapGet(conv.apiDefinitions, entry.item.name)
        byName == IF existing = None
                  THEN [isArray |-> FALSE, items |-> <<k>>]
                  ELSE [isArray |-> TRUE, items |-> Append(existing[1].items, k)]
    IN  [conv EXCEPT !.apiByPath = mapSet(@, entry.path, k),
                     !.apiDefinitions = mapSet(@, entry.item.name, byName)]

RECURSIVE indexApiEntries(_, _, _)
indexApiEntries(conv, entries, k) ==
    IF k > Len(entries) THEN conv
    ELSE indexApiEntries(indexApiItem(conv, entries[k], k), entries, k + 1)

indexApiCollection(conv, collections) ==
    LET entries == apiEntries(collections, <<>>)
    IN  indexApiEntries([conv EXCEPT !.apiItems = [k \in 1..Len(entries) |-> entries[k].item]],
                        entries, 1)

\* the items indexTestCases registers, in visiting order
RECURSIVE indexTestCases(_)
indexTestCases(collections) ==
    IF collections = <<>> THEN <<>>
    ELSE Head(collections).items
         \o indexTestCases(Head(collections).children)
         \o indexTestCases(Tail(collections))

loadSourceApidog(conv, source) ==
    [indexApiCollection(conv, source.apiCollection)
        EXCEPT !.testCases = Some(indexTestCases(source.apiTestCaseCollection))]

\* this.testCases.get(name): Map.set keeps the last item registered under a name
testCaseByName(conv, name) ==
    LET tcs == conv.testCases[1]
        hits == {i \in 1..Len(tcs) : tcs[i].name = name}
    IN  IF hits = {} THEN None ELSE Some(tcs[CHOOSE i \in hits : \A j \in hits : j <= i])

\* this.testCasesById.get(id): only items with a truthy id are registered
testCaseById(conv, id) ==
    LET tcs == conv.testCases[1]
        hits == {i \in 1..Len(tcs) : tcs[i].id = id /\ id # 0}
    IN  IF hits = {} THEN None ELSE Some(tcs[CHOOSE i \in hits : \A j \in hits : j <= i])

-----------------------------------------------------------------------------
(* ApidogConverter: endpoint lookup.  A result is a position in             *)
(* conv.apiItems, 0 for null.                                               *)

apiOf(conv, ref) == conv.apiItems[ref].api

findApiByMethodAndPath(conv, method, apiPath) ==
    IF apiPath = None THEN 0
    ELSE LET hits == {i \in 1..Len(conv.apiByPath) :
                         LET api == apiOf(conv, conv.apiByPath[i].value)
                         IN  /\ api.path = apiPath[1]
                             /\ \/ method = None
                                \/ toLowerCase(api.method) = toLowerCase(method[1])}
         IN  IF hits = {} THEN 0 ELSE conv.apiByPath[Min(hits)].value

\* path.endsWith(`/${folderPath}/${name}`) on sequences of segments
endsWithPath(path, tail) ==
    /\ Len(path) > Len(tail)
    /\ SubSeq(path, Len(path) - Len(tail) + 1, Len(path)) = tail

findApiByName(conv, name, folderPath) ==
    LET fullPath == folderPath[1] \o <<name>>
        exact == IF folderPath = None THEN None ELSE mapGet(conv.apiByPath, fullPath)
        partial == IF folderPath = None THEN {}
                   ELSE {i \in 1..Len(conv.apiByPath) :
                            endsWithPath(conv.apiByPath[i].key, fullPath)}
        api == mapGet(conv.apiDefinitions, name)
    IN  IF exact # None THEN exact[1]
        ELSE IF partial # {} THEN conv.apiByPath[Min(partial)].value
        ELSE IF api = None THEN 0
        ELSE api[1].items[1]

\* findApiByNameAndPath with the fallback taking the last candidate
findApiByNameAndPathLast(conv, name, expectedPath, folderPath) ==
    LET apiByFolder == IF folderPath = None THEN 0 ELSE findApiByName(conv, name, folderPath)
        api == mapGet(conv.apiDefinitions, name)
        match == IF api = None \/ expectedPath = None THEN {}
                 ELSE {i \in 1..Len(api[1].items) :
                          apiOf(conv, api[1].items[i]).path = expectedPath[1]}
    IN  IF apiByFolder # 0
           /\ (expectedPath = None \/ apiOf(conv, apiByFolder).path = expectedPath[1])
        THEN apiByFolder
        ELSE IF api = None THEN 0
        ELSE IF api[1].isArray /\ match # {} THEN api[1].items[Min(match)]
        ELSE api[1].items[Len(api[1].items)]

findApiByNameAndPath(conv, name, expectedPath, folderPath) ==
    LET apiByFolder == IF folderPath = None THEN 0 ELSE findApiByName(conv, name, folderPath)
        api == mapGet(conv.apiDefinitions, name)
        match == IF api = None \/ expectedPath = None THEN {}
                 ELSE {i \in 1..Len(api[1].items) :
                          apiOf(conv, api[1].items[i]).path = expectedPath[1]}
    IN  IF apiByFolder # 0
           /\ (expectedPath = None \/ apiOf(conv, apiByFolder).path = expectedPath[1])
        THEN apiByFolder
        ELSE IF api = None THEN 0
        ELSE IF api[1].isArray /\ match # {} THEN api[1].items[Min(match)]
        ELSE api[1].items[1]

-----------------------------------------------------------------------------
(* ApidogConverter: parameter overrides.  A parameter is                    *)
(* [id, name, value, enable]; a generated id is <<"custom", n>>.            *)

\* sameParamName that compares every kind of parameter exactly
sameParamNameExact(a, b, caseInsensitive) == a = b

sameParamName(a, b, caseInsensitive) ==
    IF caseInsensitive THEN toLowerCase(a) = toLowerCase(b) ELSE a = b

\* Array.findIndex by name, 0 when there is none
findParam(params, name, caseInsensitive) ==
    LET hits == {i \in 1..Len(params) : sameParamName(params[i].name, name, caseInsensitive)}
    IN  IF hits = {} THEN 0 ELSE Min(hits)

removeAt(s, i) == SubSeq(s, 1, i - 1) \o SubSeq(s, i + 1, Len(s))

customParam(n, name, value) ==
    [id |-> <<"custom", n>>, name |-> name, value |-> value, enable |-> TRUE]

\* one iteration of an `*_params_override` loop
applyOverride(params, override, conv, caseInsensitive) ==
    LET i == findParam(params, override.name, caseInsensitive)
    IN  IF override.value = None
        THEN [params |-> IF i = 0 THEN params ELSE removeAt(params, i), conv |-> conv]
        ELSE IF i # 0
        THEN [params |-> [params EXCEPT ![i].value = override.value, ![i].enable = TRUE],
              conv |-> conv]
        ELSE LET g == generateId(conv)
             IN  [params |-> Append(params, customParam(g.id, override.name, override.value)),
                  conv |-> g.conv]

RECURSIVE applyOverrides(_, _, _, _)
applyOverrides(params, overrides, conv, caseInsensitive) ==
    IF overrides = <<>> THEN [params |-> params, conv |-> conv]
    ELSE LET h == applyOverride(params, Head(overrides), conv, caseInsensitive)
         IN  applyOverrides(h.params, Tail(overrides), h.conv, caseInsensitive)

\* the array behind requestBody.parameters: the endpoint definition's own
\* array when requestBody was built from api.requestBody ([shared |-> ref]),
\* an array of the step otherwise ([own |-> params])
bodyParameters(conv, parameters) ==
    IF "shared" \in DOMAIN parameters
    THEN apiOf(conv, parameters.shared).requestBody[1].parameters
    ELSE parameters.own

withBodyParameters(conv, parameters, params) ==
    IF "shared" \in DOMAIN parameters
    THEN [parameters |-> parameters,
          conv |-> [conv EXCEPT
                      !.apiItems[parameters.shared].api.requestBody[1].parameters = params]]
    ELSE [parameters |-> [own |-> params], conv |-> conv]

\* the loop over request_form_data_override: an existing field is updated in
\* place, the new ones are collected and pushed after the loop
RECURSIVE applyFormFields(_, _, _, _)
applyFormFields(params, fields, added, conv) ==
    IF fields = <<>> THEN [params |-> params \o added, conv |-> conv]
    ELSE LET f == Head(fields)
             fieldValue == Some(orDefault(f.value, EmptyString))
             i == findParam(params, f.name, FALSE)
         IN  IF i # 0
             THEN applyFormFields([params EXCEPT ![i].value = fieldValue, ![i].enable = TRUE],
                                  Tail(fields), added, conv)
             ELSE LET g == generateId(conv)
                  IN  applyFormFields(params, Tail(fields),
                                      Append(added, customParam(g.id, f.name, fieldValue)),
                                      g.conv)

-----------------------------------------------------------------------------
(* ApidogConverter: http steps *)

convertAssertion(assertion) ==
    [type |-> "assertion",
     data |-> [comparison |-> orDefault(assertion.comparison,
                                        orDefault(assertion.operator, "equal")),
               value |-> orDefault(assertion.value, EmptyString),
               path |-> orDefault(assertion.path, EmptyString),
               expression |-> orDefault(assertion.path, EmptyString)],
     enable |-> TRUE]

convertAssertions(assertions) ==
    [i \in 1..Len(assertions) |-> convertAssertion(assertions[i])]

\* the scenario documents explored carry no custom post-processors
mergePostProcessors(assertions) == convertAssertions(assertions)

\* The override blocks shared by convertHttpStep and createBasicHttpStep, in
\* source order: body, form fields, query, path, cookie, header, user agent.
\* Each block takes and yields s = [case, conv]: the httpApiCase built so far
\* and the converter.

\* request_body_override
overrideBody(s, step) ==
    LET rbo == step.request_body_override
    IN  IF rbo # None /\ orDefault(rbo[1].data, EmptyString) # EmptyString
        THEN [s EXCEPT !.case.requestBody.data = rbo[1].data[1],
                       !.case.requestBody.type = orDefault(rbo[1].type, "application/json")]
        ELSE s

\* requestBody.parameters after the form-field loop r = [params, conv]
withFormFields(s, r) ==
    LET w == withBodyParameters(r.conv, s.case.requestBody.parameters, r.params)
    IN  [case |-> [s.case EXCEPT !.requestBody.type = "multipart/form-data",
                                 !.requestBody.parameters = w.parameters],
         conv |-> w.conv]

\* request_form_data_override
overrideFormData(s, step) ==
    IF step.request_form_data_override = None THEN s
    ELSE withFormFields(s, applyFormFields(
                               bodyParameters(s.conv, s.case.requestBody.parameters),
                               step.request_form_data_override[1], <<>>, s.conv))

\* parameters[kind] after an override loop r = [params, conv]
withParams(s, kind, r) ==
    [case |-> [s.case EXCEPT !.parameters[kind] = r.params], conv |-> r.conv]

\* query_params_override, path_params_override, cookie_params_override and
\* header_params_override
overrideParams(s, kind, overrides, caseInsensitive) ==
    withParams(s, kind,
               applyOverrides(s.case.parameters[kind], overrides, s.conv, caseInsensitive))

\* user_agent: sets or adds the User-Agent header
overrideUserAgent(s, step) ==
    IF orDefault(step.user_agent, EmptyString) = EmptyString THEN s
    ELSE withParams(s, "header",
                    applyOverride(s.case.parameters.header,
                                  [name |-> "User-Agent", value |-> step.user_agent],
                                  s.conv, TRUE))

applyStepOverrides(case, step, conv) ==
    overrideUserAgent(
        overrideParams(
            overrideParams(
                overrideParams(
                    overrideParams(
                        overrideFormData(overrideBody([case |-> case, conv |-> conv], step),
                                         step),
                        "query", step.query_params_override, FALSE),
                    "path", step.path_params_override, FALSE),
                "cookie", step.cookie_params_override, FALSE),
            "header", step.header_params_override, TRUE),
        step)

stepAuth(auth) ==
    IF auth.type = "bearer"
    THEN [type |-> "bearer", token |-> Some(orDefault(auth.token, EmptyString))]
    ELSE auth

createBasicHttpStep(conv, step) ==
    LET stepNumber == numberOr1(step.number)
        stepName == IF step.name = None THEN defaultStepName(stepNumber) ELSE step.name[1]
        rbo == step.request_body_override
        r == IF step.disable_response_validation
             THEN [id |-> 0, conv |-> conv] ELSE generateId(conv)
        g == generateId(r.conv)
        case == [id |-> g.id,
                 name |-> stepName,
                 method |-> toLowerCase(orDefault(step.method, "get")),
                 path |-> orDefault(step.path, "/"),
                 auth |-> None,
                 parameters |-> [query |-> <<>>, header |-> <<>>, cookie |-> <<>>, path |-> <<>>],
                 responseId |-> r.id,
                 requestBody |-> [parameters |-> [own |-> <<>>],
                                  type |-> IF rbo = None THEN "none"
                                           ELSE orDefault(rbo[1].type, "none"),
                                  data |-> IF rbo = None THEN EmptyString
                                           ELSE orDefault(rbo[1].data, EmptyString)],
                 postProcessors |-> mergePostProcessors(step.assertions),
                 apiId |-> None]
        withOverrides(o) ==
            [step |-> [name |-> stepName, number |-> stepNumber, type |-> "http",
                       bindId |-> 0, httpApiCase |-> o.case],
             conv |-> o.conv]
    IN  withOverrides(applyStepOverrides(case, step, g.conv))

\* convertHttpStep once the endpoint definition `api`, kept at `ref` in the
\* index, has been found
convertFoundHttpStep(conv, step, ref, api) ==
    LET stepNumber == numberOr1(step.number)
        stepName == IF step.name = None THEN defaultStepName(stepNumber) ELSE step.name[1]
        r == IF step.disable_response_validation THEN [id |-> 0, conv |-> conv]
             ELSE IF api.responses # <<>> THEN [id |-> api.responses[1], conv |-> conv]
             ELSE generateId(conv)
        g == generateId(r.conv)
        requestBody ==
            IF api.requestBody = None
            THEN [parameters |-> [own |-> <<>>], type |-> "none", data |-> EmptyString]
            ELSE [parameters |-> [shared |-> ref],
                  type |-> orDefault(api.requestBody[1].type, "none"),
                  data |-> orDefault(api.requestBody[1].data, EmptyString)]
        case == [id |-> g.id,
                 name |-> stepName,
                 method |-> orDefault(Some(api.method), "get"),
                 path |-> orDefault(Some(api.path), "/"),
                 auth |-> api.auth,
                 parameters |-> api.parameters,
                 responseId |-> r.id,
                 requestBody |-> requestBody,
                 postProcessors |-> mergePostProcessors(step.assertions),
                 apiId |-> IF api.id = 0 THEN None ELSE Some(api.id)]
        withOverrides(o) ==
            [step |-> [name |-> stepName, number |-> stepNumber, type |-> "http",
                       bindId |-> api.id,
                       httpApiCase |-> [o.case EXCEPT
                                           !.auth = IF step.auth = None THEN @
                                                    ELSE Some(stepAuth(step.auth[1]))]],
             conv |-> o.conv]
    IN  withOverrides(applyStepOverrides(case, step, g.conv))

\* the lookup by method and path, then by name: the place of the definition
\* in the index, 0 when there is none
findApi(conv, step) ==
    LET byPath == findApiByMethodAndPath(conv, step.method, step.path)
        stepName == IF step.name = None THEN defaultStepName(numberOr1(step.number))
                    ELSE step.name[1]
    IN  IF byPath # 0 THEN byPath
        ELSE findApiByNameAndPath(conv, stepName, step.path, step.folder)

\* without a definition the step is built by createBasicHttpStep
convertHttpStepAt(conv, step, ref) ==
    IF ref = 0 THEN createBasicHttpStep(conv, step)
    ELSE convertFoundHttpStep(conv, step, ref, apiOf(conv, ref))

convertHttpStep(conv, step) == convertHttpStepAt(conv, step, findApi(conv, step))

-----------------------------------------------------------------------------
(* ApidogConverter: the other step kinds.  A step converter yields          *)
(* [steps, conv, threw]: the steps to push, the converter afterwards, and   *)
(* whether it raised an exception.                                          *)

convertDelayStep(conv, step) ==
    LET g == generateId(conv)
    IN  [step |-> [id |-> <<"str", g.id>>, type |-> "delay",
                   parameters |-> [timeout |-> IF step.timeout = 0 THEN DefaultTimeout
                                               ELSE step.timeout],
                   number |-> numberOr1(step.number)],
         conv |-> g.conv]

\* reading this.testCases / this.testCasesById while they are undefined
\* raises a TypeError
convertTestCaseRefStep(conv, step) ==
    LET stepNumber == numberOr1(step.number)
        stepName == IF step.name = None THEN defaultStepName(stepNumber) ELSE step.name[1]
        refName == IF step.ref_name # None THEN step.ref_name ELSE step.name
        lookedUp == step.ref_id # 0 \/ refName # None
        testCase == IF step.ref_id # 0 THEN testCaseById(conv, step.ref_id)
                    ELSE IF refName # None THEN testCaseByName(conv, refName[1])
                    ELSE None
        found == IF testCase = None THEN 0 ELSE testCase[1].id
        g == IF found = 0 THEN generateId(conv) ELSE [id |-> found, conv |-> conv]
        testCaseName == IF testCase = None THEN stepName ELSE testCase[1].name
    IN  IF lookedUp /\ conv.testCases = None
        THEN [steps |-> <<>>, conv |-> conv, threw |-> TRUE]
        ELSE [steps |-> <<[id |-> <<"uuid", 0>>, type |-> "testCaseRef",
                           relatedId |-> g.id, name |-> testCaseName,
                           number |-> stepNumber]>>,
              conv |-> g.conv, threw |-> FALSE]

RECURSIVE findStepByNumber(_, _)
findStepByNumber(steps, targetNumber) ==
    IF steps = <<>> THEN None
    ELSE LET step == Head(steps)
             inChildren == IF "children" \in DOMAIN step
                           THEN findStepByNumber(step.children, targetNumber)
                           ELSE None
         IN  IF step.number = targetNumber THEN Some(step)
             ELSE IF inChildren # None THEN inChildren
             ELSE findStepByNumber(Tail(steps), targetNumber)

\* the copy of the linked step with the query overrides q = [params, conv]
withLinkedQuery(copied, q) ==
    [steps |-> <<[copied EXCEPT !.httpApiCase.parameters.query = q.params]>>,
     conv |-> q.conv, threw |-> FALSE]

\* the deep copy of one step of the linked test case, renumbered
copyLinkedStep(conv, step, linkedStep) ==
    IF linkedStep = None THEN [steps |-> <<>>, conv |-> conv, threw |-> FALSE]
    ELSE LET copied == [linkedStep[1] EXCEPT
                           !.number = IF step.number = 0 THEN @ ELSE step.number]
         IN  IF copied.type = "http"
             THEN withLinkedQuery(copied,
                                  applyOverrides(copied.httpApiCase.parameters.query,
                                                 step.query_params_override, conv, FALSE))
             ELSE [steps |-> <<copied>>, conv |-> conv, threw |-> FALSE]

\* copyLinkedSteps without the JSON deep copy: the override and the new
\* number are written to the step of the indexed test case itself
copyLinkedStepsShared(conv, step, testCase) ==
    IF testCase = None THEN [steps |-> <<>>, conv |-> conv, threw |-> FALSE]
    ELSE IF step.link_step = 0
    THEN [steps |-> testCase[1].steps, conv |-> conv, threw |-> FALSE]
    ELSE LET r == copyLinkedStep(conv, step,
                                 findStepByNumber(testCase[1].steps, step.link_step))
             shared(steps) ==
                 [k \in 1..Len(steps) |->
                     IF steps[k].number = step.link_step /\ r.steps # <<>>
                     THEN r.steps[1] ELSE steps[k]]
         IN  [r EXCEPT !.conv.testCases[1] =
                 [i \in 1..Len(@) |->
                     IF @[i].name = testCase[1].name
                     THEN [@[i] EXCEPT !.steps = shared(@)]
                     ELSE @[i]]]

\* the steps copied from the test case link_to names
copyLinkedSteps(conv, step, testCase) ==
    IF testCase = None THEN [steps |-> <<>>, conv |-> conv, threw |-> FALSE]
    ELSE IF step.link_step = 0
    THEN [steps |-> testCase[1].steps, conv |-> conv, threw |-> FALSE]
    ELSE copyLinkedStep(conv, step, findStepByNumber(testCase[1].steps, step.link_step))

convertLinkedSteps(conv, step) ==
    IF step.link_to = None THEN [steps |-> <<>>, conv |-> conv, threw |-> FALSE]
    ELSE IF conv.testCases = None THEN [steps |-> <<>>, conv |-> conv, threw |-> TRUE]
    ELSE copyLinkedSteps(conv, step, testCaseByName(conv, step.link_to[1]))

\* steps.push(r.step) of a step converter that returns one step
pushOne(r) == [steps |-> <<r.step>>, conv |-> r.conv, threw |-> FALSE]

\* script data is a sequence of characters; the three replace() calls turn
\* every line ending (\r\n, \r or \n) into \r\n
RECURSIVE normalizeScript(_)
normalizeScript(data) ==
    IF data = <<>> THEN <<>>
    ELSE IF Len(data) >= 2 /\ data[1] = "\r" /\ data[2] = "\n"
    THEN <<"\r", "\n">> \o normalizeScript(SubSeq(data, 3, Len(data)))
    ELSE IF Head(data) \in {"\r", "\n"}
    THEN <<"\r", "\n">> \o normalizeScript(Tail(data))
    ELSE <<Head(data)>> \o normalizeScript(Tail(data))

convertScriptStep(conv, step) ==
    LET g == generateId(conv)
    IN  [step |-> [id |-> <<"str", g.id>>, type |-> "script", disable |-> FALSE,
                   parameters |-> [data |-> normalizeScript(step.data),
                                   type |-> "customScript",
                                   defaultEnable |-> TRUE, enable |-> TRUE],
                   name |-> orDefault(step.name, EmptyString),
                   number |-> numberOr1(step.number)],
         conv |-> g.conv]

\* the old `condition` format of an if step; String(condition.value || '')
ifParameters(step) ==
    [keyVariable |-> orDefault(step.condition.variable, EmptyString),
     operator |-> orDefault(step.condition.operator, "equal"),
     valueVariable |-> orDefault(step.condition.value, EmptyString)]

\* invertOperator of convertIfStep: `map[op] || 'notEqual'`
\* `map[op]` also finds what the object literal inherits from
\* Object.prototype: for these names it is a function, which is truthy and is
\* left out when the test case is written as JSON
ObjectPrototypeKeys == {"toString", "constructor", "valueOf", "hasOwnProperty"}

InheritedFunction == "<function>"

invertOperator(op) ==
    CASE op = "equal" -> "notEqual"
      [] op = "not_equal" -> "equal"
      [] op = "notEqual" -> "equal"
      [] op = "greater" -> "lessOrEqual"
      [] op = "less" -> "greaterOrEqual"
      [] op = "greaterOrEqual" -> "less"
      [] op = "lessOrEqual" -> "greater"
      [] op = "contains" -> "notContains"
      [] op = "notContains" -> "contains"
      [] op = "exists" -> "notExists"
      [] op = "notExists" -> "exists"
      [] op \in ObjectPrototypeKeys -> InheritedFunction
      [] OTHER -> "notEqual"

\* the node built around the converted children c = [steps, conv, threw]
branchNode(c, type, parameters, number) ==
    IF c.threw THEN c
    ELSE LET g == generateId(c.conv)
         IN  [steps |-> <<[id |-> <<"str", g.id>>, type |-> type, disable |-> FALSE,
                           parameters |-> parameters, children |-> c.steps,
                           number |-> number]>>,
              conv |-> g.conv, threw |-> FALSE]

\* The child loops of convertIfStep (inElse = FALSE), of its `else` child
\* and of convertElseStep (inElse = TRUE) dispatch on the same step kinds;
\* only the loop of convertIfStep has a branch for `else`, which it emits
\* as an `if` node with the inverted condition of the enclosing if.
RECURSIVE convertChildren(_, _, _, _, _, _)
RECURSIVE convertIfStep(_, _)

\* the kinds every loop dispatches on
convertNestedStep(conv, step) ==
    IF step.type = "link" THEN convertLinkedSteps(conv, step)
    ELSE IF step.type = "testCaseRef" THEN convertTestCaseRefStep(conv, step)
    ELSE IF step.type = "http" THEN pushOne(convertHttpStep(conv, step))
    ELSE IF step.type = "delay" THEN pushOne(convertDelayStep(conv, step))
    ELSE IF step.type = "script" THEN pushOne(convertScriptStep(conv, step))
    ELSE IF step.type = "if" THEN convertIfStep(conv, step)
    ELSE [steps |-> <<>>, conv |-> conv, threw |-> FALSE]

\* the `else` child of an if step
convertElseChild(conv, child, parameters, stepNumber) ==
    branchNode(convertChildren(conv, child.children, <<>>, TRUE, parameters, stepNumber),
               "if",
               [parameters EXCEPT !.operator = invertOperator(@)],
               IF child.number = 0 THEN stepNumber + 1 ELSE child.number)

convertChild(conv, child, inElse, parameters, stepNumber) ==
    IF child.type = "else"
    THEN IF inElse THEN [steps |-> <<>>, conv |-> conv, threw |-> FALSE]
         ELSE convertElseChild(conv, child, parameters, stepNumber)
    ELSE convertNestedStep(conv, child)

\* the rest of a child loop after r = [steps, conv, threw] of its first child
convertChildrenAfter(r, children, acc, inElse, parameters, stepNumber) ==
    IF r.threw THEN r
    ELSE convertChildren(r.conv, Tail(children), acc \o r.steps, inElse, parameters,
                         stepNumber)

convertChildren(conv, children, acc, inElse, parameters, stepNumber) ==
    IF children = <<>> THEN [steps |-> acc, conv |-> conv, threw |-> FALSE]
    ELSE convertChildrenAfter(convertChild(conv, Head(children), inElse, parameters,
                                           stepNumber),
                              children, acc, inElse, parameters, stepNumber)

convertIfStep(conv, step) ==
    branchNode(convertChildren(conv, step.children, <<>>, FALSE, ifParameters(step),
                               numberOr1(step.number)),
               "if", ifParameters(step), numberOr1(step.number))

\* a top-level `else` step: a node of type `else` with empty parameters
convertElseStep(conv, step) ==
    branchNode(convertChildren(conv, step.children, <<>>, TRUE, <<>>, 0),
               "else", <<>>, numberOr1(step.number))

\* one iteration of the step loop of convert
convertStep(conv, step) ==
    IF step.type = "else" THEN convertElseStep(conv, step)
    ELSE convertNestedStep(conv, step)

-----------------------------------------------------------------------------
(* ApidogConverter.convert *)

\* `dataset.id || generateId()`: an absent id is 0 here
convertDataset(conv, dataset, testCaseId) ==
    LET a == IF dataset.id = 0 THEN generateId(conv) ELSE [id |-> dataset.id, conv |-> conv]
        b == IF dataset.data_list_id = 0 THEN generateId(a.conv)
             ELSE [id |-> dataset.data_list_id, conv |-> a.conv]
    IN  [dataset |-> [id |-> a.id, relatedId |-> testCaseId,
                      dl |-> [id |-> b.id, dataSetId |-> a.id, relatedId |-> testCaseId]],
         conv |-> b.conv]

RECURSIVE convertDatasets(_, _, _)
convertDatasets(conv, datasetsYaml, testCaseId) ==
    IF datasetsYaml = <<>> THEN <<>>
    ELSE LET d == convertDataset(conv, Head(datasetsYaml), testCaseId)
         IN  <<d.dataset>> \o convertDatasets(d.conv, Tail(datasetsYaml), testCaseId)

\* convert up to the step loop: load the source collection when the document
\* names one, then draw the test case id
convertBegin(yamlData, source) ==
    generateId(IF yamlData.source_apidog
               THEN loadSourceApidog(NewConverter, source)
               ELSE NewConverter)

\* JSON.stringify of a step: an array shared with an endpoint definition is
\* written with the content it has when the file is written
RECURSIVE stringifySteps(_, _)
stringifySteps(conv, steps) ==
    IF steps = <<>> THEN <<>>
    ELSE LET s == Head(steps)
             t == IF s.type = "http"
                  THEN [s EXCEPT !.httpApiCase.requestBody.parameters =
                           [own |-> bodyParameters(conv, @)]]
                  ELSE IF "children" \in DOMAIN s
                  THEN [s EXCEPT !.children = stringifySteps(conv, @)]
                  ELSE s
         IN  <<t>> \o stringifySteps(conv, Tail(steps))

\* convert after the step loop: datasets, useDataSetId and the test case object
convertFinish(conv, yamlData, testCaseId, steps) ==
    LET datasets == convertDatasets(conv, yamlData.datasets, testCaseId)
    IN  [steps |-> stringifySteps(conv, steps),
         id |-> testCaseId,
         name |-> IF yamlData.name = EmptyString THEN "Test Scenario" ELSE yamlData.name,
         options |-> [useDataSetId |-> IF datasets = <<>> THEN 0 ELSE datasets[1].id],
         ordering |-> ConvertedOrdering,
         apiTestDataSets |-> datasets,
         folder |-> yamlData.folder]

\* the step loop of convert; r is the result of convertStep on the first of
\* the remaining steps
RECURSIVE convertSteps(_, _, _)
convertStepsAfter(r, stepsYaml, steps) ==
    IF r.threw THEN [steps |-> steps, conv |-> r.conv, threw |-> TRUE]
    ELSE convertSteps(r.conv, Tail(stepsYaml), steps \o r.steps)

convertSteps(conv, stepsYaml, steps) ==
    IF stepsYaml = <<>> THEN [steps |-> steps, conv |-> conv, threw |-> FALSE]
    ELSE convertStepsAfter(convertStep(conv, Head(stepsYaml)), stepsYaml, steps)

\* convert(yamlData) of a document whose conversion does not throw
convertLoop(yamlData, b, s) == convertFinish(s.conv, yamlData, b.id, s.steps)

convertFrom(yamlData, b) ==
    convertLoop(yamlData, b, convertSteps(b.conv, yamlData.steps, <<>>))

convert(yamlData, source) == convertFrom(yamlData, convertBegin(yamlData, source))

\* the numeric values under an `id` key of the steps of a test case
RECURSIVE stepIdsOf(_)
stepIdsOf(steps) ==
    IF steps = <<>> THEN <<>>
    ELSE (IF Head(steps).type = "http" THEN <<Head(steps).httpApiCase.id>>
          ELSE IF "children" \in DOMAIN Head(steps) THEN stepIdsOf(Head(steps).children)
          ELSE <<>>)
         \o stepIdsOf(Tail(steps))

\* a converted test case as the merger record described in the header
mergerView(testCase) ==
    [name |-> testCase.name, folder |-> testCase.folder,
     ordering |-> Some(testCase.ordering), id |-> testCase.id,
     stepIds |-> stepIdsOf(testCase.steps),
     useDataSetId |-> testCase.options.useDataSetId,
     datasets |-> testCase.apiTestDataSets]

-----------------------------------------------------------------------------
(* ApidogReverseConverter (merge_test_cases.js) *)

falsyValue(v) == v = None \/ v[1] \in Falsy

\* extractParameterOverrides(parameters, null): convertHttpStep always passes
\* null for the original parameters, so `original` is undefined for every
\* parameter
RECURSIVE extractParameterOverrides(_)
extractParameterOverrides(parameters) ==
    IF parameters = <<>> THEN <<>>
    ELSE LET param == Head(parameters)
         IN  (IF ~param.enable /\ falsyValue(param.value) THEN <<>>
              ELSE <<[name |-> param.name,
                      value |-> Some(orDefault(param.value, EmptyString))]>>)
             \o extractParameterOverrides(Tail(parameters))

RECURSIVE formDataOverrides(_)
formDataOverrides(parameters) ==
    IF parameters = <<>> THEN <<>>
    ELSE LET param == Head(parameters)
         IN  (IF param.enable /\ param.value # None
              THEN <<[name |-> param.name, value |-> param.value]>> ELSE <<>>)
             \o formDataOverrides(Tail(parameters))

\* [form, body]: request_form_data_override and request_body_override of the
\* YAML step, <<>> when the key is not emitted
extractRequestBodyOverride(httpApiCase) ==
    LET requestBody == httpApiCase.requestBody
        fields == formDataOverrides(requestBody.parameters.own)
    IN  IF requestBody.type = "none" \/ requestBody.data = EmptyString
        THEN [form |-> None, body |-> None]
        ELSE IF requestBody.type = "multipart/form-data" /\ fields # <<>>
        THEN [form |-> Some(fields), body |-> None]
        ELSE [form |-> None,
              body |-> Some([type |-> Some(requestBody.type), data |-> Some(requestBody.data)])]

RECURSIVE convertPostProcessorsToAssertions(_)
convertPostProcessorsToAssertions(postProcessors) ==
    IF postProcessors = <<>> THEN <<>>
    ELSE LET data == Head(postProcessors).data
         IN  (IF Head(postProcessors).type = "assertion"
              THEN <<[comparison |-> Some(orDefault(Some(data.comparison), "equal")),
                      operator |-> None,
                      value |-> Some(orDefault(Some(data.value), EmptyString)),
                      path |-> Some(orDefault(Some(data.path),
                                              orDefault(Some(data.expression), EmptyString)))]>>
              ELSE <<>>)
             \o convertPostProcessorsToAssertions(Tail(postProcessors))

reverseAuth(auth) ==
    IF auth = None THEN None
    ELSE IF auth[1].type = "bearer"
    THEN Some([type |-> "bearer", token |-> Some(orDefault(auth[1].token, EmptyString))])
    ELSE auth

reverseConvertHttpStep(step) ==
    LET httpApiCase == step.httpApiCase
        rb == extractRequestBodyOverride(httpApiCase)
    IN  [type |-> "http",
         number |-> numberOr1(step.number),
         name |-> Some(step.name),
         folder |-> None,
         path |-> IF httpApiCase.path = EmptyString THEN None ELSE Some(httpApiCase.path),
         method |-> IF httpApiCase.method = EmptyString THEN None
                    ELSE Some(toUpperCase(httpApiCase.method)),
         disable_response_validation |-> (httpApiCase.responseId = 0),
         request_body_override |-> rb.body,
         request_form_data_override |-> rb.form,
         query_params_override |-> extractParameterOverrides(httpApiCase.parameters.query),
         path_params_override |-> extractParameterOverrides(httpApiCase.parameters.path),
         cookie_params_override |-> extractParameterOverrides(httpApiCase.parameters.cookie),
         header_params_override |-> extractParameterOverrides(httpApiCase.parameters.header),
         auth |-> reverseAuth(httpApiCase.auth),
         user_agent |-> None,
         assertions |-> convertPostProcessorsToAssertions(httpApiCase.postProcessors)]

reverseConvertDelayStep(step) ==
    [type |-> "delay", number |-> numberOr1(step.number),
     timeout |-> IF step.parameters.timeout = 0 THEN DefaultTimeout
                 ELSE step.parameters.timeout]

\* index: the items the reverse converter registered by id (empty when it was
\* given no source collection)
reverseConvertTestCaseRefStep(step, index) ==
    LET hits == {i \in 1..Len(index) : index[i].id = step.relatedId /\ index[i].id # 0}
        testCase == index[CHOOSE i \in hits : \A j \in hits : j <= i]
    IN  [type |-> "testCaseRef", number |-> numberOr1(step.number),
         name |-> Some(step.name),
         ref_name |-> IF step.relatedId # 0 /\ hits # {} THEN Some(testCase.name) ELSE None,
         ref_id |-> IF step.relatedId # 0 /\ hits = {} THEN step.relatedId ELSE 0]

\* the two replace() calls turn \r\n and \r into \n
RECURSIVE denormalizeScript(_)
denormalizeScript(data) ==
    IF data = <<>> THEN <<>>
    ELSE IF Len(data) >= 2 /\ data[1] = "\r" /\ data[2] = "\n"
    THEN <<"\n">> \o denormalizeScript(SubSeq(data, 3, Len(data)))
    ELSE IF Head(data) = "\r" THEN <<"\n">> \o denormalizeScript(Tail(data))
    ELSE <<Head(data)>> \o denormalizeScript(Tail(data))

reverseConvertScriptStep(step) ==
    [type |-> "script", number |-> numberOr1(step.number),
     data |-> denormalizeScript(step.parameters.data),
     name |-> IF step.name = EmptyString THEN None ELSE Some(step.name)]

\* the step loops of convert and of convertIfStep dispatch on http,
\* testCaseRef, delay, script and if; a step of any other type is left out
RECURSIVE reverseConvertSteps(_, _)

reverseConvertIfStep(step, index) ==
    [type |-> "if", number |-> numberOr1(step.number),
     condition |-> [variable |-> Some(step.parameters.keyVariable),
                    operator |-> Some(step.parameters.operator),
                    value |-> Some(step.parameters.valueVariable)],
     children |-> reverseConvertSteps(step.children, index)]

reverseConvertSteps(steps, index) ==
    IF steps = <<>> THEN <<>>
    ELSE LET step == Head(steps)
         IN  (IF step.type = "http" THEN <<reverseConvertHttpStep(step)>>
              ELSE IF step.type = "testCaseRef"
              THEN <<reverseConvertTestCaseRefStep(step, index)>>
              ELSE IF step.type = "delay" THEN <<reverseConvertDelayStep(step)>>
              ELSE IF step.type = "script" THEN <<reverseConvertScriptStep(step)>>
              ELSE IF step.type = "if" THEN <<reverseConvertIfStep(step, index)>>
              ELSE <<>>)
             \o reverseConvertSteps(Tail(steps), index)

RECURSIVE reverseConvertDatasets(_)
reverseConvertDatasets(datasets) ==
    IF datasets = <<>> THEN <<>>
    ELSE <<[id |-> Head(datasets).id, data_list_id |-> Head(datasets).dl.id]>>
         \o reverseConvertDatasets(Tail(datasets))

reverseConvert(testCase, index, withSource) ==
    [name |-> testCase.name,
     source_apidog |-> withSource,
     folder |-> EmptyString,
     datasets |-> reverseConvertDatasets(testCase.apiTestDataSets),
     steps |-> reverseConvertSteps(testCase.steps, index)]

-----------------------------------------------------------------------------
(* The merger process: main() of merge_test_cases.js *)

\* !testCase.steps || !testCase.name: a file without name (or with an empty
\* one) is reported and left out
validTestCase(testCase) == testCase.name # ""

\* the files pushed to this.testCases, in readdir order
loadTestCasesFromFolder(files) == SelectSeq(files, validTestCase)

\* loadTestCasesFromFolder followed by the head of mergeIntoApidog
Begin ==
    /\ pc \in {"idle", "written"}
    /\ runs < MaxRuns
    /\ testCases' = loadTestCasesFromFolder(tempFiles)
    /\ sourceDoc' = apidogFile
    /\ processedTestCase' = None
    /\ cursor' = 0
    /\ IF loadTestCasesFromFolder(tempFiles) = <<>> \/ indexThrows(rootOf(ensureRoot(apidogFile)))
       THEN /\ pc' = "failed"
            /\ UNCHANGED <<usedIds, nextId, apidogData, existingTestCasesByFolder>>
       ELSE /\ pc' = "merging"
            /\ usedIds' = collectUsedIds(apidogFile)
            /\ nextId' = MergerFirstId
            /\ apidogData' = ensureRoot(apidogFile)
            /\ existingTestCasesByFolder' = buildIndex(rootOf(ensureRoot(apidogFile)))
    /\ UNCHANGED <<apidogFile, tempFiles, runs, convertVars, compareVars>>

MergeOne ==
    /\ pc = "merging"
    /\ cursor < Len(testCases)
    /\ \E m \in {mergeOne(testCases[cursor + 1], apidogData,
                         existingTestCasesByFolder, usedIds, nextId)} :
           /\ apidogData' = m.doc
           /\ existingTestCasesByFolder' = m.idx
           /\ processedTestCase' = Some(m.processed)
           /\ usedIds' = m.usedIds
           /\ nextId' = m.nextId
    /\ cursor' = cursor + 1
    /\ UNCHANGED <<apidogFile, tempFiles, pc, runs, testCases, sourceDoc, convertVars, compareVars>>

\* the sort, then writeFileSync(outputPath); the output is the next run's source
SortAndWrite ==
    /\ pc = "merging"
    /\ cursor = Len(testCases)
    /\ apidogData' = sortCollection(apidogData)
    /\ apidogFile' = sortCollection(apidogData)
    /\ pc' = "written"
    /\ runs' = runs + 1
    /\ UNCHANGED <<tempFiles, testCases, usedIds, nextId, existingTestCasesByFolder,
                   cursor, processedTestCase, sourceDoc, convertVars, compareVars>>

\* clearTempFolder of the short form, run after mergeIntoApidog returned:
\* every file of the temp folder whose name ends in .json is unlinked
clearTempFolder(files) == SelectSeq(files, LAMBDA file : FALSE)

ClearTempFolder ==
    /\ pc = "written"
    /\ tempFiles # <<>>
    /\ tempFiles' = clearTempFolder(tempFiles)
    /\ pc' = "cleared"
    /\ UNCHANGED <<apidogFile, runs, testCases, usedIds, nextId, apidogData,
                   existingTestCasesByFolder, cursor, processedTestCase, sourceDoc,
                   convertVars, compareVars>>

-----------------------------------------------------------------------------
(* The inputs explored: the collection on disk and the temp folder *)

Names == {"a", "b"}

TestCase(name, folder, ordering, id, stepIds, datasets) ==
    [name |-> name, folder |-> folder, ordering |-> ordering, id |-> id,
     stepIds |-> stepIds,
     useDataSetId |-> IF datasets = <<>> THEN 0 ELSE datasets[1].id,
     datasets |-> datasets]

Collection(items, children) ==
    [apiTestCaseCollection |->
        <<[name |-> "Root", children |-> children, items |-> items]>>]

Folder(name, items) == [name |-> name, children |-> <<>>, items |-> items]

\* Inputs that vary the ids: values that are falsy (0), small, and equal to
\* the allocator's first id; the same value at one, two or three places.
IdVals == {0, 1, MergerFirstId}

IdTestCases ==
    {TestCase(n, "", Some(ConvertedOrdering), i, s, <<>>) :
        n \in Names, i \in IdVals, s \in {<<>>}}
    \cup {TestCase(n, "", Some(ConvertedOrdering), 1, s, <<>>) :
            n \in Names, s \in {<<0>>, <<1>>, <<1, 1>>}}

IdCollections ==
    {Collection(items, <<>>) :
        items \in SeqsUpTo({TestCase("a", "", Some(ConvertedOrdering), i, <<>>, <<>>) :
                                i \in IdVals}, 1)}

\* Inputs that vary the structure: duplicate folder names, duplicate item
\* names, different orderings; the ids of the existing items are all different.
FolderItems(base) ==
    SeqsUpTo({TestCase(n, "", o, base, <<>>, <<>>) :
                n \in Names, o \in {Some(10), Some(20)}}, 1)

\* the items of a folder inside a folder, as the base collection has them
NestedItems ==
    {<<TestCase("a", "", o1, 3, <<>>, <<>>), TestCase("b", "", o2, 4, <<>>, <<>>)>> :
        o1 \in {Some(10), Some(20)}, o2 \in {Some(10), None}}

StructureCollections ==
    {[apiTestCaseCollection |-> <<>>]}
    \cup {Collection(items, <<>>) : items \in FolderItems(1)}
    \cup {Collection(items, <<Folder("F", f1)>>) :
            items \in FolderItems(1), f1 \in FolderItems(2)}
    \cup {Collection(<<>>, <<Folder("F", f1), Folder(g, f2)>>) :
            f1 \in FolderItems(2), f2 \in FolderItems(3), g \in {"F", "G"}}
    \cup {Collection(<<>>, <<[Folder("F", f1) EXCEPT !.children = <<Folder("N", n)>>]>>) :
            f1 \in FolderItems(2), n \in NestedItems}

StructureTestCases ==
    {TestCase(n, f, Some(10), 5, <<>>, <<>>) : n \in Names, f \in {"", "F", "H"}}
    \cup {TestCase("a", f, Some(20), 5, <<>>, <<>>) : f \in {"", "F", "H"}}

\* a file of the temp folder whose JSON has no `name`
NamelessFile == TestCase("", "", Some(10), 5, <<>>, <<>>)

-----------------------------------------------------------------------------
(* The forward converter process: main() of convert_scenario.js, and the    *)
(* reverse converter process run on its output                              *)

\* new ApidogConverter(), then convert() down to the test case id
ConvertBegin ==
    /\ cpc = "start"
    /\ LET b == convertBegin(yamlFile, sourceFile)
       IN  /\ converter' = b.conv
           /\ convTestCaseId' = b.id
    /\ convSteps' = <<>>
    /\ stepIndex' = 0
    /\ cpc' = "converting"
    /\ UNCHANGED <<yamlFile, sourceFile, outputFile, reversedYaml, mergeVars, compareVars>>

\* one iteration of the step loop; an exception ends main() with exit(1)
\* before anything is written
ConvertStep ==
    /\ cpc = "converting"
    /\ stepIndex < Len(yamlFile.steps)
    /\ \E r \in {convertStep(converter, yamlFile.steps[stepIndex + 1])} :
           IF r.threw
           THEN /\ cpc' = "failed"
                /\ UNCHANGED <<converter, convSteps, stepIndex>>
           ELSE /\ cpc' = cpc
                /\ converter' = r.conv
                /\ convSteps' = convSteps \o r.steps
                /\ stepIndex' = stepIndex + 1
    /\ UNCHANGED <<yamlFile, sourceFile, convTestCaseId, outputFile, reversedYaml, mergeVars, compareVars>>

\* the datasets, the test case object and writeFileSync(outputFile)
ConvertFinish ==
    /\ cpc = "converting"
    /\ stepIndex = Len(yamlFile.steps)
    /\ outputFile' = Some(convertFinish(converter, yamlFile, convTestCaseId, convSteps))
    /\ cpc' = "done"
    /\ UNCHANGED <<yamlFile, sourceFile, converter, convTestCaseId, convSteps, stepIndex,
                   reversedYaml, mergeVars, compareVars>>

\* main() of the reverse converter on the written test case, given the source
\* collection as third argument or not
ReverseConvert ==
    /\ cpc = "done"
    /\ \E withSource \in BOOLEAN :
          reversedYaml' = Some(reverseConvert(
                                  outputFile[1],
                                  IF withSource
                                  THEN indexTestCases(sourceFile.apiTestCaseCollection)
                                  ELSE <<>>,
                                  withSource))
    /\ cpc' = "reversed"
    /\ UNCHANGED <<yamlFile, sourceFile, converter, convTestCaseId, convSteps, stepIndex,
                   outputFile, mergeVars, compareVars>>

-----------------------------------------------------------------------------
(* The inputs explored by the converter: scenario documents and the source  *)
(* collection they name                                                     *)

Param(name, value) ==
    [id |-> <<"def", name>>, name |-> name, value |-> value, enable |-> TRUE]

Endpoint(id, name, method, path, query, body) ==
    [name |-> name,
     api |-> [id |-> id, method |-> method, path |-> path, auth |-> None,
              parameters |-> [query |-> query, header |-> <<>>, cookie |-> <<>>,
                              path |-> <<>>],
              requestBody |-> body,
              responses |-> <<id + 1>>]]

FormBody(params) ==
    Some([parameters |-> params, type |-> Some("multipart/form-data"),
          data |-> Some(EmptyString)])

Override(name, value) == [name |-> name, value |-> value]

Assertion(comparison, value, path) ==
    [comparison |-> comparison, operator |-> None, value |-> value, path |-> path]

HttpStep(name, query, form, assertions) ==
    [type |-> "http", number |-> 0, name |-> Some(name), folder |-> None,
     path |-> None, method |-> None, disable_response_validation |-> FALSE,
     request_body_override |-> None, request_form_data_override |-> form,
     query_params_override |-> query, path_params_override |-> <<>>,
     cookie_params_override |-> <<>>, header_params_override |-> <<>>,
     auth |-> None, user_agent |-> None, assertions |-> assertions]

DelayStep(timeout) == [type |-> "delay", number |-> 0, timeout |-> timeout]

TestCaseRefStep(refName) ==
    [type |-> "testCaseRef", number |-> 0, name |-> None, ref_name |-> refName,
     ref_id |-> 0]

LinkStep(linkTo, linkStep) ==
    [type |-> "link", number |-> 0, link_to |-> linkTo, link_step |-> linkStep,
     query_params_override |-> <<>>]

LinkStepWith(linkTo, linkStep, query) ==
    [LinkStep(linkTo, linkStep) EXCEPT !.query_params_override = query]

IfStep(operator, children) ==
    [type |-> "if", number |-> 0,
     condition |-> [variable |-> Some("v"), operator |-> operator, value |-> Some("x")],
     children |-> children]

ElseStep(children) == [type |-> "else", number |-> 0, children |-> children]

ScriptStep(data) == [type |-> "script", number |-> 0, name |-> None, data |-> data]

\* an http step that names its endpoint by path
HttpStepAt(name, path) == [HttpStep(name, <<>>, None, <<>>) EXCEPT !.path = Some(path)]

\* an http step that supplies every kind of override
HttpStepWithAll(name) ==
    [HttpStep(name, <<Override("q", Some("x"))>>, Some(<<Override("g", Some("x"))>>), <<>>)
        EXCEPT !.path = Some("/literal"), !.method = Some("POST"),
               !.request_body_override = Some([type |-> Some("application/json"),
                                               data |-> Some("{}")]),
               !.path_params_override = <<Override("id", Some("x"))>>,
               !.cookie_params_override = <<Override("c", Some("x"))>>,
               !.header_params_override = <<Override("X-Token", Some("x"))>>,
               !.auth = Some([type |-> "bearer", token |-> Some("t")])]

\* a step of a test case of the source collection, as Apidog exports it
SourceHttpStep(id, number) ==
    [name |-> "getUser", number |-> number, type |-> "http", bindId |-> 100,
     httpApiCase |-> [id |-> id, name |-> "getUser", method |-> "get", path |-> "/users",
                      auth |-> None,
                      parameters |-> [query |-> <<Param("p", Some("d"))>>, header |-> <<>>,
                                      cookie |-> <<>>, path |-> <<>>],
                      responseId |-> 101,
                      requestBody |-> [parameters |-> [own |-> <<>>], type |-> "none",
                                       data |-> EmptyString],
                      postProcessors |-> <<>>,
                      apiId |-> Some(100)]]

SourceDelayStep(id, number) ==
    [id |-> <<"str", id>>, type |-> "delay", parameters |-> [timeout |-> 500],
     number |-> number]

SourceIfStep(id, number, children) ==
    [id |-> <<"str", id>>, type |-> "if", disable |-> FALSE,
     parameters |-> [keyVariable |-> "v", operator |-> "equal", valueVariable |-> "x"],
     children |-> children, number |-> number]

SourceTestCase(name, id, steps) == [name |-> name, id |-> id, steps |-> steps]

\* The source collection.  Endpoints: getUser with a query parameter and a
\* multipart body, ping, search with a query parameter and a header declared
\* twice, and three endpoints named "Get User" in two folders and a nested
\* collection.  Test cases: Login, whose step id is either outside or inside
\* the range the converter generates from, and Flow, with steps nested in
\* `if` steps.
SourceCollection(stepId) ==
    [apiCollection |->
        <<[name |-> "Root",
           items |-> <<Endpoint(100, "getUser", "get", "/users",
                                <<Param("p", Some("d"))>>,
                                FormBody(<<Param("f", Some("d"))>>)),
                       Endpoint(200, "ping", "get", "/ping", <<>>, None),
                       [Endpoint(300, "search", "get", "/search",
                                 <<Param("p", Some("d")), Param("p", Some("e"))>>, None)
                           EXCEPT !.api.parameters.header =
                                     <<Param("X-Token", Some("d")),
                                       Param("x-token", Some("e"))>>],
                       [Endpoint(700, "lookup", "get", "/lookup",
                                 <<Param("k", Some("d"))>>, None)
                           EXCEPT !.api.parameters.header = <<Param("k", Some("d"))>>,
                                  !.api.parameters.cookie = <<Param("k", Some("d"))>>,
                                  !.api.parameters.path = <<Param("k", Some("d"))>>]>>,
           children |->
               <<[name |-> "A",
                  items |-> <<Endpoint(400, "Get User", "get", "/a/user", <<>>, None),
                              Endpoint(800, "dup", "get", "/dup1", <<>>, None),
                              Endpoint(900, "dup", "post", "/dup2", <<>>, None)>>,
                  children |-> <<>>],
                 [name |-> "B",
                  items |-> <<Endpoint(500, "Get User", "get", "/b/user", <<>>, None),
                              [name |-> "N",
                               items |-> <<Endpoint(600, "Get User", "get", "/n/user",
                                                    <<>>, None)>>,
                               children |-> <<>>]>>,
                  children |-> <<>>]>>]>>,
     apiTestCaseCollection |->
        <<[name |-> "Root",
           items |-> <<SourceTestCase("Login", 7, <<SourceHttpStep(stepId, 1)>>),
                       SourceTestCase("Flow", 8,
                           <<SourceHttpStep(30, 1),
                             SourceIfStep(40, 2,
                                 <<SourceHttpStep(31, 3),
                                   SourceIfStep(41, 4, <<SourceDelayStep(42, 5)>>)>>)>>)>>,
           children |-> <<>>]>>]

EmptySource == [apiCollection |-> <<>>, apiTestCaseCollection |-> <<>>]

SourceFiles == {SourceCollection(20), SourceCollection(ConverterIdBase + 2)}

\* steps a document without a source collection is explored with
PlainStepPool ==
    {HttpStep("missing", <<Override("q", Some("x"))>>, None, <<>>),
     HttpStepWithAll("missing"),
     DelayStep(500),
     ScriptStep(<<"a", "\n", "b">>),
     ScriptStep(<<"a", "\r", "\n", "b", "\r">>),
     IfStep(Some("equal"), <<>>),
     IfStep(Some("equal"), <<DelayStep(500), ElseStep(<<DelayStep(500)>>)>>),
     IfStep(Some("greater"), <<ElseStep(<<>>)>>),
     IfStep(None, <<IfStep(Some("contains"), <<ElseStep(<<ScriptStep(<<"a">>)>>)>>)>>),
     ElseStep(<<DelayStep(500)>>),
     ElseStep(<<>>)}
    \cup {TestCaseRefStep(r) : r \in {None, Some("Login"), Some("Nope")}}
    \cup {LinkStep(l, n) : l \in {None, Some("Login"), Some("Nope")}, n \in {0, 1}}

StepPool ==
    PlainStepPool
    \cup {HttpStep("getUser", q, None, <<>>) :
        q \in {<<>>, <<Override("q", Some("x"))>>, <<Override("p", Some("x"))>>,
               <<Override("p", None)>>, <<Override("q", Some(NumberZero))>>,
               <<Override("q", Some(EmptyString))>>}}
    \cup {HttpStep("getUser", <<>>, Some(f), <<>>) :
            f \in {<<Override("f", Some("x"))>>, <<Override("g", Some("x"))>>}}
    \cup {HttpStep("ping", <<>>, None, a) :
            a \in {<<Assertion(Some("equal"), Some("v"), Some("$.a"))>>,
                   <<Assertion(Some("equal"), Some(NumberZero), Some("$.a"))>>}}
    \cup {HttpStep("search", <<Override("p", None)>>, None, <<>>),
          [HttpStep("search", <<>>, None, <<>>)
              EXCEPT !.header_params_override = <<Override("X-Token", None)>>],
          HttpStep("Get User", <<>>, None, <<>>),
          HttpStepAt("Get User", "/b/user"),
          HttpStepAt("Get User", "/n/user"),
          HttpStepAt("Get User", "/none"),
          IfStep(Some("equal"), <<HttpStep("getUser", <<Override("p", None)>>, None, <<>>),
                                  LinkStep(Some("Flow"), 3)>>)}
    \cup {LinkStep(Some("Flow"), n) : n \in {0, 2, 3, 5, 9}}
    \cup {LinkStepWith(Some("Flow"), 3, <<Override("p", Some("x"))>>),
          LinkStepWith(Some("Login"), 1, <<Override("p", None)>>),
          LinkStepWith(Some("Flow"), 1, <<Override("q", Some("x"))>>)}

\* the operators of a condition: the ten of the inversion table, the
\* spelling not_equal, and two that are no operators of the converter
Operators ==
    {"equal", "notEqual", "greater", "lessOrEqual", "less", "greaterOrEqual",
     "contains", "notContains", "exists", "notExists", "not_equal", "matches", "toString"}

\* a step on the endpoint "lookup" with one override of one kind
LookupStep(kind, override) ==
    [HttpStep("lookup", IF kind = "query" THEN <<override>> ELSE <<>>, None, <<>>)
        EXCEPT !.path_params_override = IF kind = "path" THEN <<override>> ELSE <<>>,
               !.cookie_params_override = IF kind = "cookie" THEN <<override>> ELSE <<>>,
               !.header_params_override = IF kind = "header" THEN <<override>> ELSE <<>>]

\* overrides whose name is a declared one, differs from it in case only, or
\* is not declared; steps that give the path of an endpoint
LookupStepPool ==
    {LookupStep(kind, Override(n, v)) :
        kind \in {"query", "path", "cookie", "header"},
        n \in {"k", "K", "z"}, v \in {Some("x"), None}}
    \cup {[HttpStepAt("missing", path) EXCEPT !.method = m] :
            path \in {"/dup1", "/dup2", "/users"}, m \in {None, Some("GET"), Some("post")}}

\* the steps of a document are numbered by their position, from 1 or from 0
numberedFrom(stepsYaml, first) ==
    [i \in 1..Len(stepsYaml) |-> [stepsYaml[i] EXCEPT !.number = first + i - 1]]

numbered(stepsYaml) == numberedFrom(stepsYaml, 1)

Dataset(id, dataListId) == [id |-> id, data_list_id |-> dataListId]

DatasetPool ==
    {Dataset(i, j) : i \in {0, ConverterIdBase + 1, ConverterIdBase + 2}, j \in {0, 5}}

Scenario(name, source, stepsYaml, datasets) ==
    [name |-> name, source_apidog |-> source, folder |-> EmptyString,
     datasets |-> datasets, steps |-> numbered(stepsYaml)]

ScenarioDocs ==
    {Scenario("s", TRUE, st, <<>>) : st \in SeqsUpTo(StepPool, MaxSteps)}
    \cup {Scenario("s", FALSE, st, <<>>) : st \in SeqsUpTo(PlainStepPool, MaxSteps)}
    \cup {Scenario("s", TRUE, <<st>>, <<>>) : st \in LookupStepPool}
    \cup {Scenario("s", FALSE, <<IfStep(Some(op), <<ElseStep(<<>>)>>)>>, <<>>) :
            op \in Operators}
    \cup {[Scenario("s", TRUE, <<>>, <<>>) EXCEPT !.steps = numberedFrom(<<st>>, 0)] :
            st \in {LinkStep(Some("Flow"), 3), LinkStep(Some("Login"), 1)}}
    \cup {Scenario("s", FALSE, st, ds) :
            st \in SeqsUpTo({DelayStep(500)}, 1), ds \in SeqsUpTo(DatasetPool, MaxDatasets)}

\* test cases in the temp folder that the converter wrote: each by a process
\* of its own, from a document without steps that needs no source collection
ConvertedTestCases ==
    {mergerView(convert(Scenario(n, FALSE, <<>>, ds), EmptySource)) :
        n \in Names,
        ds \in SeqsUpTo({Dataset(0, 0)}, MaxDatasets) \cup {<<Dataset(5, 0)>>}}

ConvertedCollections(converted) ==
    {Collection(items, <<>>) : items \in SeqsUpTo(converted, 1)}

ConverterIdle ==
    /\ yamlFile = Scenario("s", FALSE, <<>>, <<>>)
    /\ sourceFile = EmptySource
    /\ cpc = "idle"
    /\ converter = NewConverter
    /\ convTestCaseId = 0
    /\ convSteps = <<>>
    /\ stepIndex = 0
    /\ outputFile = None
    /\ reversedYaml = None

-----------------------------------------------------------------------------
(* compare_endpoints: the coverage comparator.  A path is its sequence of   *)
(* segments, an endpoint key `${METHOD} ${path}` is <<METHOD, path>>.       *)

HttpMethods == {"get", "post", "put", "patch", "delete"}

endpointKey(method, path) == <<method, path>>

\* openApiEndpoints: one entry per operation of `paths` whose key is an HTTP
\* method, in Object.keys order
RECURSIVE openApiEndpointsOf(_)
openApiEndpointsOf(operations) ==
    IF operations = <<>> THEN <<>>
    ELSE (IF Head(operations).method \in HttpMethods
          THEN <<[key |-> endpointKey(toUpperCase(Head(operations).method),
                                      Head(operations).path),
                  path |-> Head(operations).path,
                  method |-> toUpperCase(Head(operations).method),
                  tags |-> Head(operations).tags]>>
          ELSE <<>>)
         \o openApiEndpointsOf(Tail(operations))

\* the entries extractScenarioEndpoints pushes for one scenario: the steps
\* with an httpApiCase that has a path
RECURSIVE scenarioEndpoints(_)
scenarioEndpoints(steps) ==
    IF steps = <<>> THEN <<>>
    ELSE (IF Head(steps).path = None THEN <<>>
          ELSE <<endpointKey(toUpperCase(orDefault(Head(steps).method, "GET")),
                             Head(steps).path[1])>>)
         \o scenarioEndpoints(Tail(steps))

\* scenarioEndpointsMap[name]: a later scenario of the name replaces the entry
scenarioEndpointsMap(scenarios, name) ==
    LET hits == {i \in 1..Len(scenarios) : scenarios[i].name = name}
    IN  IF hits = {} THEN None
        ELSE Some(scenarioEndpoints(
                      scenarios[CHOOSE i \in hits : \A j \in hits : j <= i].steps))

\* apiNameToEndpoint.get(name): Map.set keeps the last item of the name
apiNameToEndpoint(apis, name) ==
    LET hits == {i \in 1..Len(apis) : apis[i].name = name}
    IN  IF hits = {} THEN None
        ELSE Some(endpointKey(
                      toUpperCase(apis[CHOOSE i \in hits : \A j \in hits : j <= i].method),
                      apis[CHOOSE i \in hits : \A j \in hits : j <= i].path))

\* the keys one step of a test-case file adds to testedEndpoints
stepEndpoints(step, apidog) ==
    (IF step.ref_name # None /\ apidog # None
        /\ scenarioEndpointsMap(apidog[1].scenarios, step.ref_name[1]) # None
     THEN Range(scenarioEndpointsMap(apidog[1].scenarios, step.ref_name[1])[1])
     ELSE {})
    \cup (IF step.path # None
          THEN {endpointKey(toUpperCase(orDefault(step.method, "GET")), step.path[1])}
          ELSE {})
    \cup (IF step.name # None /\ apidog # None
             /\ apiNameToEndpoint(apidog[1].apis, step.name[1]) # None
          THEN {apiNameToEndpoint(apidog[1].apis, step.name[1])[1]}
          ELSE {})

fileEndpoints(doc, apidog) ==
    UNION {stepEndpoints(doc[i], apidog) : i \in 1..Len(doc)}

\* Array.filter over the keys of openApiEndpoints
keysWhere(endpoints, tested, wanted) ==
    SelectSeq(endpoints, LAMBDA e : (e.key \in tested) = wanted)

\* tags[0] || 'Other'
tagOf(endpoint) == IF endpoint.tags = <<>> THEN "Other" ELSE endpoint.tags[1]

\* untestedByTag / testedByTag: the endpoints of each tag, in key order
groupByTag(endpoints) ==
    [tag \in {tagOf(e) : e \in Range(endpoints)} |->
        SelectSeq(endpoints, LAMBDA e : tagOf(e) = tag)]

\* the report object; `coverage` and `metadata` are left out
makeReport(endpoints, tested, files) ==
    [summary |-> [total |-> Len(endpoints),
                  tested |-> Cardinality(tested),
                  untested |-> Len(keysWhere(endpoints, tested, FALSE)),
                  testFiles |-> Len(files)],
     tested |-> groupByTag(keysWhere(endpoints, tested, TRUE)),
     untested |-> groupByTag(keysWhere(endpoints, tested, FALSE))]

\* reading the OpenAPI document and the optional collection
CompareBegin ==
    /\ kpc = "start"
    /\ openApiEndpoints' = openApiEndpointsOf(openApiSpec)
    /\ testedEndpoints' = {}
    /\ fileIndex' = 0
    /\ kpc' = "scanning"
    /\ UNCHANGED <<openApiSpec, compareApidog, testFiles, report, mergeVars, convertVars>>

\* one iteration of testFiles.forEach
CompareFile ==
    /\ kpc = "scanning"
    /\ fileIndex < Len(testFiles)
    /\ testedEndpoints' = testedEndpoints
                             \cup fileEndpoints(testFiles[fileIndex + 1], compareApidog)
    /\ fileIndex' = fileIndex + 1
    /\ UNCHANGED <<openApiSpec, compareApidog, testFiles, openApiEndpoints, kpc, report,
                   mergeVars, convertVars>>

\* the comparison, the grouping and the report
CompareReport ==
    /\ kpc = "scanning"
    /\ fileIndex = Len(testFiles)
    /\ report' = Some(makeReport(openApiEndpoints, testedEndpoints, testFiles))
    /\ kpc' = "reported"
    /\ UNCHANGED <<openApiSpec, compareApidog, testFiles, openApiEndpoints,
                   testedEndpoints, fileIndex, mergeVars, convertVars>>

(* The inputs explored by the comparator *)

Operation(method, path, tags) == [method |-> method, path |-> path, tags |-> tags]

\* operations of an OpenAPI document: a plain path, a templated path, and a
\* key of a path item that is no HTTP method
OperationPool ==
    {Operation("get", <<"users">>, <<"user">>),
     Operation("post", <<"users">>, <<>>),
     Operation("get", <<"users", "{id}">>, <<"user">>),
     Operation("parameters", <<"users", "{id}">>, <<>>)}

OpenApiSpecs ==
    {ops \in SeqsUpTo(OperationPool, MaxOperations) :
        \A i, j \in 1..Len(ops) : ops[i] = ops[j] => i = j}

CompareStep(refName, name, method, path) ==
    [ref_name |-> refName, name |-> name, method |-> method, path |-> path]

CompareStepPool ==
    {CompareStep(None, None, None, Some(<<"users">>)),
     CompareStep(None, None, Some("post"), Some(<<"users">>)),
     CompareStep(None, None, Some("GET"), Some(<<"users", "123">>)),
     CompareStep(None, None, Some("GET"), Some(<<"orders">>)),
     CompareStep(Some("Login"), None, None, None),
     CompareStep(None, Some("getUser"), None, None),
     CompareStep(None, Some("delay"), None, None)}

\* the scenarios and endpoint items of a collection file
CompareCollection ==
    [scenarios |-> <<[name |-> "Login",
                      steps |-> <<[method |-> Some("post"), path |-> Some(<<"users">>)],
                                  [method |-> None, path |-> None]>>]>>,
     apis |-> <<[name |-> "getUser", method |-> "get", path |-> <<"users">>]>>]

CompareIdle ==
    /\ openApiSpec = <<>>
    /\ compareApidog = None
    /\ testFiles = <<>>
    /\ kpc = "idle"
    /\ openApiEndpoints = <<>>
    /\ testedEndpoints = {}
    /\ fileIndex = 0
    /\ report = None

MergerIdle ==
    /\ pc = "off"
    /\ runs = 0
    /\ testCases = <<>>
    /\ usedIds = {}
    /\ nextId = MergerFirstId
    /\ apidogData = apidogFile
    /\ existingTestCasesByFolder = [root |-> EmptyMap, folders |-> EmptyMap]
    /\ cursor = 0
    /\ processedTestCase = None
    /\ sourceDoc = apidogFile

InitConvert ==
    /\ yamlFile \in ScenarioDocs
    /\ sourceFile \in SourceFiles
    /\ cpc = "start"
    /\ converter = NewConverter
    /\ convTestCaseId = 0
    /\ convSteps = <<>>
    /\ stepIndex = 0
    /\ outputFile = None
    /\ reversedYaml = None
    /\ apidogFile = [apiTestCaseCollection |-> <<>>]
    /\ tempFiles = <<>>
    /\ MergerIdle
    /\ CompareIdle

NextConvert == ConvertBegin \/ ConvertStep \/ ConvertFinish \/ ReverseConvert

SpecConvert == InitConvert /\ [][NextConvert]_vars

-----------------------------------------------------------------------------
(* The merger's initial states *)

Init ==
    /\ \/ /\ apidogFile \in IdCollections
          /\ tempFiles \in SeqsUpTo(IdTestCases, MaxIncoming)
       \/ /\ apidogFile \in StructureCollections
          /\ tempFiles \in SeqsUpTo(StructureTestCases \cup {NamelessFile}, MaxIncoming)
       \/ \E converted \in {ConvertedTestCases} :
             /\ apidogFile \in ConvertedCollections(converted)
             /\ tempFiles \in SeqsUpTo(converted, MaxIncoming)
    /\ pc = "idle"
    /\ runs = 0
    /\ testCases = <<>>
    /\ usedIds = {}
    /\ nextId = MergerFirstId
    /\ apidogData = apidogFile
    /\ existingTestCasesByFolder = [root |-> EmptyMap, folders |-> EmptyMap]
    /\ cursor = 0
    /\ processedTestCase = None
    /\ sourceDoc = apidogFile
    /\ ConverterIdle
    /\ CompareIdle

Next == Begin \/ MergeOne \/ SortAndWrite \/ ClearTempFolder

Spec == Init /\ [][Next]_vars

-----------------------------------------------------------------------------
(* The comparator's initial states *)

InitCompare ==
    /\ openApiSpec \in OpenApiSpecs
    /\ compareApidog \in {None, Some(CompareCollection)}
    /\ testFiles \in SeqsUpTo(SeqsUpTo(CompareStepPool, 1), MaxFiles)
    /\ kpc = "start"
    /\ openApiEndpoints = <<>>
    /\ testedEndpoints = {}
    /\ fileIndex = 0
    /\ report = None
    /\ apidogFile = [apiTestCaseCollection |-> <<>>]
    /\ tempFiles = <<>>
    /\ MergerIdle
    /\ ConverterIdle

NextCompare == CompareBegin \/ CompareFile \/ CompareReport

SpecCompare == InitCompare /\ [][NextCompare]_vars

-----------------------------------------------------------------------------
(* Claims about the collection merger *)

NoDuplicateIds(doc) ==
    LET ids == documentIds(doc)
    IN  \A i, j \in 1..Len(ids) : i # j => ids[i] # ids[j]

\* C1: once mergeIntoApidog has processed all incoming test cases and written
\* the document, no numeric value occurs under an `id` key at two places of it.
C1_UniqueIdsAfterMerge ==
    pc = "written" => NoDuplicateIds(apidogFile)

incomingNamesFor(folderName) ==
    {testCases[k].name : k \in {k \in 1..Len(testCases) : testCases[k].folder = folderName}}

\* C2: an item of the root or of a folder of the loaded collection whose name
\* no incoming test case aimed at that root/folder carries is still there,
\* unchanged, in the same root/folder of the written document.
C2_ExistingItemsKept ==
    (pc = "written" /\ sourceDoc.apiTestCaseCollection # <<>>) =>
        LET src == rootOf(sourceDoc)
            out == rootOf(apidogFile)
        IN  /\ \A i \in 1..Len(src.items) :
                  src.items[i].name \notin incomingNamesFor("")
                      => src.items[i] \in Range(out.items)
            /\ \A c \in 1..Len(src.children) :
                  \A i \in 1..Len(src.children[c].items) :
                      src.children[c].items[i].name
                              \notin incomingNamesFor(src.children[c].name)
                          => /\ c <= Len(out.children)
                             /\ out.children[c].name = src.children[c].name
                             /\ src.children[c].items[i] \in Range(out.children[c].items)

\* C4: reassignIds on one incoming test case maps equal original ids to equal
\* results, keeps an id that was not in usedIds when the test case started,
\* and replaces an id that was in usedIds by one fresh id.
C4_ReassignConsistent ==
    [][(pc = "merging" /\ cursor' = cursor + 1) =>
          LET in  == itemIds(testCases[cursor + 1])
              out == itemIds(processedTestCase'[1])
          IN  /\ Len(out) = Len(in)
              /\ \A i, j \in 1..Len(in) : in[i] = in[j] => out[i] = out[j]
              /\ \A i \in 1..Len(in) :
                    IF in[i] \in usedIds
                    THEN out[i] \notin usedIds /\ out[i] # in[i]
                    ELSE out[i] = in[i]]_vars

namesOf(items) == {items[i].name : i \in {i \in 1..Len(items) : items[i] # Null}}

sameNamesAndCounts(a, b) ==
    /\ namesOf(a.items) = namesOf(b.items)
    /\ Len(a.items) = Len(b.items)
    /\ Len(a.children) = Len(b.children)
    /\ \A c \in 1..Len(a.children) :
          /\ c <= Len(b.children)
          /\ a.children[c].name = b.children[c].name
          /\ namesOf(a.children[c].items) = namesOf(b.children[c].items)
          /\ Len(a.children[c].items) = Len(b.children[c].items)

\* C5: merging the same incoming test cases into the output of a first merge
\* leaves, in the root and in every folder, the same item names and item count.
C5_IdempotentByName ==
    (pc = "written" /\ runs >= 2) =>
        sameNamesAndCounts(rootOf(apidogFile), rootOf(sourceDoc))

\* C6: merging the same incoming test cases into the output of a first merge
\* writes that same document again.
C6_RerunConverges ==
    (pc = "written" /\ runs >= 2) => apidogFile = sourceDoc

\* C3: in every test case of the written document, each data-list record has
\* dataSetId equal to the id of its dataset, each dataset and data-list record
\* has relatedId equal to the id of its test case, and useDataSetId is the id
\* of the first dataset; every test case of the explored documents with
\* datasets was produced by the forward converter.
referencesIntact(item) ==
    /\ \A k \in 1..Len(item.datasets) :
          /\ item.datasets[k].dl.dataSetId = item.datasets[k].id
          /\ item.datasets[k].relatedId = item.id
          /\ item.datasets[k].dl.relatedId = item.id
    /\ item.useDataSetId = IF item.datasets = <<>> THEN 0 ELSE item.datasets[1].id

C3_ReferencesSurviveMerge ==
    pc = "written" =>
        LET root == rootOf(apidogFile)
        IN  \A i \in 1..Len(root.items) :
                root.items[i] # Null => referencesIntact(root.items[i])

-----------------------------------------------------------------------------
(* Claims about the forward and the reverse converter *)

onlyHttpAndDelay(doc) ==
    \A i \in 1..Len(doc.steps) : doc.steps[i].type \in {"http", "delay"}

presentFieldsKept(original, reversed) ==
    /\ original.comparison # None => reversed.comparison = original.comparison
    /\ original.value # None => reversed.value = original.value
    /\ original.path # None => reversed.path = original.path

sameAssertions(original, reversed) ==
    /\ Len(reversed) = Len(original)
    /\ \A k \in 1..Len(original) : presentFieldsKept(original[k], reversed[k])

\* C7: for a document of http and delay steps, the reverse conversion of its
\* forward conversion has the same steps in the same order with the same
\* numbers, every http step with exactly the original parameter overrides
\* and the original assertions.
C7_RoundTripStable ==
    (cpc = "reversed" /\ onlyHttpAndDelay(yamlFile)) =>
        LET original == yamlFile.steps
            reversed == reversedYaml[1].steps
        IN  /\ Len(reversed) = Len(original)
            /\ \A i \in 1..Len(original) :
                  /\ i <= Len(reversed)
                  /\ reversed[i].type = original[i].type
                  /\ reversed[i].number = original[i].number
                  /\ original[i].type = "http" =>
                        /\ reversed[i].query_params_override = original[i].query_params_override
                        /\ reversed[i].path_params_override = original[i].path_params_override
                        /\ reversed[i].cookie_params_override = original[i].cookie_params_override
                        /\ reversed[i].header_params_override = original[i].header_params_override
                        /\ sameAssertions(original[i].assertions, reversed[i].assertions)

\* the test cases a document can refer to: those of the collection it loads
knownTestCases ==
    IF yamlFile.source_apidog
    THEN {tc.name : tc \in Range(indexTestCases(sourceFile.apiTestCaseCollection))}
    ELSE {}

unresolvedStep(step) ==
    \/ /\ step.type = "testCaseRef"
       /\ (step.ref_name = None \/ step.ref_name[1] \notin knownTestCases)
    \/ /\ step.type = "link"
       /\ (step.link_to = None \/ step.link_to[1] \notin knownTestCases)

\* the number of steps a step of the document contributes to the test case
linkedTestCase(name) ==
    LET tcs == indexTestCases(sourceFile.apiTestCaseCollection)
    IN  tcs[CHOOSE i \in 1..Len(tcs) :
                /\ tcs[i].name = name
                /\ \A j \in 1..Len(tcs) : tcs[j].name = name => j <= i]

contribution(step) ==
    IF step.type # "link" THEN 1
    ELSE IF unresolvedStep(step) THEN 0
    ELSE IF step.link_step = 0 THEN Len(linkedTestCase(step.link_to[1]).steps)
    ELSE IF findStepByNumber(linkedTestCase(step.link_to[1]).steps, step.link_step) = None
    THEN 0 ELSE 1

RECURSIVE contributions(_)
contributions(stepsYaml) ==
    IF stepsYaml = <<>> THEN 0
    ELSE contribution(Head(stepsYaml)) + contributions(Tail(stepsYaml))

\* C8: a document with unresolved testCaseRef or link steps is still
\* converted, whether or not it names a source collection: the conversion
\* does not abort, an unresolved testCaseRef is emitted with a generated
\* relatedId, an unresolved link contributes nothing, every other step is
\* converted.
C8_UnresolvedNeverAborts ==
    /\ cpc # "failed"
    /\ cpc = "done" =>
          /\ Len(outputFile[1].steps) = contributions(yamlFile.steps)
          /\ \A i \in 1..Len(yamlFile.steps) :
                (yamlFile.steps[i].type = "testCaseRef" /\ unresolvedStep(yamlFile.steps[i]))
                    => \E k \in 1..Len(outputFile[1].steps) :
                          /\ outputFile[1].steps[k].type = "testCaseRef"
                          /\ outputFile[1].steps[k].number = i
                          /\ outputFile[1].steps[k].relatedId > ConverterIdBase

\* what one step alone yields from a freshly loaded converter, as written
aloneOutput(step) ==
    LET fresh == loadSourceApidog(NewConverter, sourceFile)
        r == convertHttpStep(fresh, step)
    IN  stringifySteps(r.conv, <<r.step>>)[1]

nameValueEnable(params) ==
    [k \in 1..Len(params) |->
        [name |-> params[k].name, value |-> params[k].value, enable |-> params[k].enable]]

sameRequest(a, b) ==
    /\ nameValueEnable(a.httpApiCase.requestBody.parameters.own)
         = nameValueEnable(b.httpApiCase.requestBody.parameters.own)
    /\ nameValueEnable(a.httpApiCase.parameters.query)
         = nameValueEnable(b.httpApiCase.parameters.query)

onlyHttp(doc) == \A i \in 1..Len(doc.steps) : doc.steps[i].type = "http"

\* C9: converting http steps leaves every indexed endpoint definition as it
\* was loaded, and the written output of a step is what that step yields on
\* its own, whatever the steps before it overrode.
C9_IndexesUntouched ==
    /\ (cpc \in {"converting", "done"} /\ yamlFile.source_apidog) =>
          converter.apiItems = loadSourceApidog(NewConverter, sourceFile).apiItems
    /\ (cpc = "done" /\ yamlFile.source_apidog /\ onlyHttp(yamlFile)) =>
          \A i \in 1..Len(yamlFile.steps) :
              sameRequest(outputFile[1].steps[i], aloneOutput(yamlFile.steps[i]))

\* C10: no numeric id occurs twice in the test case one forward conversion
\* writes.
C10_ConvertedIdsUnique ==
    cpc = "done" =>
        LET ids == itemIds(mergerView(outputFile[1]))
        IN  \A i, j \in 1..Len(ids) : i # j => ids[i] # ids[j]

-----------------------------------------------------------------------------
(* Claims about conditional branches *)

\* steps that each yield exactly one output step, at every nesting level
RECURSIVE oneToOne(_)
oneToOne(stepsYaml) ==
    \A i \in 1..Len(stepsYaml) :
        /\ stepsYaml[i].type \in {"delay", "script", "if", "else"}
        /\ stepsYaml[i].type \in {"if", "else"} => oneToOne(stepsYaml[i].children)

inverseOf(op) ==
    CASE op = "equal" -> "notEqual"
      [] op = "notEqual" -> "equal"
      [] op = "greater" -> "lessOrEqual"
      [] op = "lessOrEqual" -> "greater"
      [] op = "less" -> "greaterOrEqual"
      [] op = "greaterOrEqual" -> "less"
      [] op = "contains" -> "notContains"
      [] op = "notContains" -> "contains"
      [] op = "exists" -> "notExists"
      [] op = "notExists" -> "exists"
      [] OTHER -> "notEqual"

\* node is an `if` node guarded by the inverted condition of ifYaml
elseBranchOk(ifYaml, node) ==
    /\ node.type = "if"
    /\ node.parameters.keyVariable = ifYaml.condition.variable[1]
    /\ node.parameters.valueVariable = ifYaml.condition.value[1]
    /\ node.parameters.operator = inverseOf(ifYaml.condition.operator[1])

\* in a sequence of steps and its output: an else that follows an if, and an
\* else that is a child of an if, are emitted as the inverted if
RECURSIVE elsesInverted(_, _)
elsesInverted(stepsYaml, out) ==
    \A i \in 1..Len(stepsYaml) :
        /\ (i > 1 /\ stepsYaml[i].type = "else" /\ stepsYaml[i - 1].type = "if"
              /\ stepsYaml[i - 1].condition.operator # None)
              => elseBranchOk(stepsYaml[i - 1], out[i])
        /\ (stepsYaml[i].type = "if" /\ stepsYaml[i].condition.operator # None) =>
              \A k \in 1..Len(stepsYaml[i].children) :
                  stepsYaml[i].children[k].type = "else"
                      => elseBranchOk(stepsYaml[i], out[i].children[k])
        /\ stepsYaml[i].type \in {"if", "else"}
              => elsesInverted(stepsYaml[i].children, out[i].children)

\* C11: in the written test case, the else block that belongs to an if step,
\* be it the step after the if or a child of the if, is an `if` node with the
\* if's variable and value and the inverse of its operator.
C11_ElseInverted ==
    (cpc = "done" /\ oneToOne(yamlFile.steps))
        => elsesInverted(yamlFile.steps, outputFile[1].steps)

-----------------------------------------------------------------------------
(* Claims about http steps *)

ParamKinds == {"query", "path", "cookie", "header"}

overridesOf(step, kind) ==
    CASE kind = "query" -> step.query_params_override
      [] kind = "path" -> step.path_params_override
      [] kind = "cookie" -> step.cookie_params_override
      [] kind = "header" -> step.header_params_override

\* the names the override list deletes: a null value and no later entry
deletedNames(overrides) ==
    {overrides[k].name : k \in {k \in 1..Len(overrides) :
        /\ overrides[k].value = None
        /\ \A j \in (k + 1)..Len(overrides) : overrides[j].name # overrides[k].name}}

\* C12: a parameter named by a deletion directive (a null value, no later
\* entry of that name) is absent from the converted step's list of that
\* kind, also when the endpoint definition declares the name more than once.
C12_DeletionRemoves ==
    (cpc = "done" /\ yamlFile.source_apidog /\ onlyHttp(yamlFile)) =>
        \A i \in 1..Len(yamlFile.steps) : \A kind \in ParamKinds :
            LET params == outputFile[1].steps[i].httpApiCase.parameters[kind]
            IN  \A k \in 1..Len(params) :
                    params[k].name \notin deletedNames(overridesOf(yamlFile.steps[i], kind))

-----------------------------------------------------------------------------
(* Claims about link steps *)

\* every step of a test case of the source collection, at any depth
RECURSIVE allSteps(_)
allSteps(steps) ==
    IF steps = <<>> THEN {}
    ELSE {Head(steps)}
         \cup (IF "children" \in DOMAIN Head(steps) THEN allSteps(Head(steps).children)
               ELSE {})
         \cup allSteps(Tail(steps))

sourceTestCases == sourceFile.apiTestCaseCollection[1].items

\* the link step names a known test case and one of its step numbers, and
\* carries no overrides
singleStepLink(step) ==
    /\ step.type = "link"
    /\ step.link_to # None
    /\ step.link_step # 0
    /\ step.query_params_override = <<>>
    /\ \E t \in Range(sourceTestCases) :
          /\ t.name = step.link_to[1]
          /\ \E s \in allSteps(t.steps) : s.number = step.link_step

referencedStep(step) ==
    LET t == CHOOSE t \in Range(sourceTestCases) : t.name = step.link_to[1]
    IN  CHOOSE s \in allSteps(t.steps) : s.number = step.link_step

\* C13: a link step that names a step number of the referenced test case and
\* carries no overrides yields exactly one step: the referenced step with the
\* link step's own number.
C13_LinkCopiesOneStep ==
    (cpc = "done" /\ yamlFile.source_apidog /\ Len(yamlFile.steps) = 1
        /\ singleStepLink(yamlFile.steps[1]))
    => outputFile[1].steps
          = <<[referencedStep(yamlFile.steps[1]) EXCEPT !.number = yamlFile.steps[1].number]>>

onlyLinks(doc) == \A i \in 1..Len(doc.steps) : doc.steps[i].type = "link"

\* a spliced step without the generated ids of added query parameters
withoutCustomIds(step) ==
    IF step.type = "http"
    THEN [step EXCEPT !.httpApiCase.parameters.query = nameValueEnable(@)]
    ELSE step

\* what each link step of the document yields from the source as loaded
linkedAlone(doc) ==
    Flatten([i \in 1..Len(doc.steps) |->
                convertLinkedSteps(loadSourceApidog(NewConverter, sourceFile),
                                   doc.steps[i]).steps])

\* C14: while link steps are converted the test cases of the index stay as
\* loaded, and each spliced copy is what its own link step yields from the
\* unmodified source, whatever the links before it overrode.
C14_LinksLeaveSource ==
    /\ (cpc \in {"converting", "done"} /\ yamlFile.source_apidog) =>
          converter.testCases = Some(indexTestCases(sourceFile.apiTestCaseCollection))
    /\ (cpc = "done" /\ yamlFile.source_apidog /\ onlyLinks(yamlFile)) =>
          [i \in 1..Len(outputFile[1].steps) |-> withoutCustomIds(outputFile[1].steps[i])]
            = [i \in 1..Len(linkedAlone(yamlFile)) |->
                  withoutCustomIds(linkedAlone(yamlFile)[i])]

\* two links to the same step of one test case, the first with an override
C14_Witness ==
    /\ cpc = "done"
    /\ Len(yamlFile.steps) = 2
    /\ onlyLinks(yamlFile)
    /\ yamlFile.steps[1].link_to = yamlFile.steps[2].link_to
    /\ yamlFile.steps[1].link_step = yamlFile.steps[2].link_step
    /\ yamlFile.steps[1].link_step # 0
    /\ yamlFile.steps[1].query_params_override # <<>>
    /\ Len(outputFile[1].steps) = 2

\* no endpoint of the source collection has the step's name or path
unresolvedHttp(doc, step) ==
    /\ step.type = "http"
    /\ doc.source_apidog =>
          \A e \in Range(apiEntries(sourceFile.apiCollection, <<>>)) :
              /\ step.name # Some(e.item.name)
              /\ step.path # Some(e.item.api.path)

nameValue(params) ==
    [k \in 1..Len(params) |-> [name |-> params[k].name, value |-> params[k].value]]

\* C15: an http step whose endpoint is not found is emitted as one http step
\* with bindId 0, the step's own method and path, exactly the parameters its
\* override lists give, its form fields and its auth override.
C15_FallbackCarriesOverrides ==
    (cpc = "done" /\ onlyHttp(yamlFile)) =>
        \A i \in 1..Len(yamlFile.steps) :
            unresolvedHttp(yamlFile, yamlFile.steps[i]) =>
                LET step == yamlFile.steps[i]
                    case == outputFile[1].steps[i].httpApiCase
                IN  /\ outputFile[1].steps[i].bindId = 0
                    /\ case.method = toLowerCase(orDefault(step.method, "get"))
                    /\ case.path = orDefault(step.path, "/")
                    /\ \A kind \in ParamKinds :
                          nameValue(case.parameters[kind]) = overridesOf(step, kind)
                    /\ step.request_form_data_override # None =>
                          nameValue(case.requestBody.parameters.own)
                              = step.request_form_data_override[1]
                    /\ step.auth # None => case.auth = Some(stepAuth(step.auth[1]))

\* the endpoints of the source collection named `name`, in indexing order
candidatesOf(name) ==
    SelectSeq(apiEntries(sourceFile.apiCollection, <<>>), LAMBDA e : e.item.name = name)

\* the candidate the lookup is to return: the first one declaring the step's
\* path, the first one indexed when the step has no path or none declares it
expectedCandidate(step, cands) ==
    LET matching == IF step.path = None THEN {}
                    ELSE {k \in 1..Len(cands) : cands[k].item.api.path = step.path[1]}
    IN  cands[IF matching = {} THEN 1 ELSE Min(matching)].item

\* an http step named like several endpoints, without folder hint, whose path
\* is not the path of an endpoint of another name
ambiguousByName(step) ==
    /\ step.type = "http"
    /\ step.name # None
    /\ step.folder = None
    /\ Len(candidatesOf(step.name[1])) >= 2
    /\ \A e \in Range(apiEntries(sourceFile.apiCollection, <<>>)) :
          step.path = Some(e.item.api.path) => e.item.name = step.name[1]

\* C16: an http step whose name several indexed endpoints share is bound to
\* the candidate declaring the step's path when there is one, to the
\* first-indexed candidate otherwise, and the conversion does not fail.
C16_AmbiguousNameFirstIndexed ==
    (cpc \in {"done", "failed"} /\ yamlFile.source_apidog /\ onlyHttp(yamlFile)) =>
        /\ (\E i \in 1..Len(yamlFile.steps) : ambiguousByName(yamlFile.steps[i]))
              => cpc = "done"
        /\ cpc = "done" =>
              \A i \in 1..Len(yamlFile.steps) :
                  ambiguousByName(yamlFile.steps[i]) =>
                      outputFile[1].steps[i].bindId
                          = expectedCandidate(yamlFile.steps[i],
                                              candidatesOf(yamlFile.steps[i].name[1])).api.id

\* a step without path is bound to the first of three candidates lying in
\* different folders, and a step with the third one's path to the third
C16_Witness ==
    /\ cpc = "done"
    /\ yamlFile.source_apidog
    /\ Len(yamlFile.steps) = 2
    /\ \A i \in 1..2 : ambiguousByName(yamlFile.steps[i])
    /\ Len(candidatesOf(yamlFile.steps[1].name[1])) >= 3
    /\ yamlFile.steps[1].path = None
    /\ outputFile[1].steps[1].bindId = candidatesOf(yamlFile.steps[1].name[1])[1].item.api.id
    /\ yamlFile.steps[2].path # None
    /\ outputFile[1].steps[2].bindId = candidatesOf(yamlFile.steps[2].name[1])[3].item.api.id

-----------------------------------------------------------------------------
(* Claims about failures *)

\* C17: a merge whose temp folder holds a file that is not a test case (no
\* `name`) ends in failure: it never writes the collection.
C17_InvalidInputAborts ==
    (\E k \in 1..Len(tempFiles) : ~validTestCase(tempFiles[k])) => pc # "written"

-----------------------------------------------------------------------------
(* Claims about reverse conversion *)

\* every node has one reversed step of its kind at its position, and so have
\* the children of a branch
RECURSIVE stepForStep(_, _)
stepForStep(nodes, steps) ==
    /\ Len(steps) = Len(nodes)
    /\ \A i \in 1..Len(nodes) :
          /\ steps[i].type = nodes[i].type
          /\ "children" \in DOMAIN nodes[i] =>
                /\ "children" \in DOMAIN steps[i]
                /\ stepForStep(nodes[i].children, steps[i].children)

\* C18: every step of a converted test case, at every nesting level, has
\* exactly one step of the same kind at the same position in the scenario the
\* reverse converter makes of it.
C18_ReverseLosesNoStep ==
    cpc = "reversed" => stepForStep(outputFile[1].steps, reversedYaml[1].steps)

\* the endpoint definition of the source collection a converted step is bound to
boundEndpoints(node) ==
    {e.item.api : e \in {e \in Range(apiEntries(sourceFile.apiCollection, <<>>)) :
                            e.item.api.id = node.bindId}}

\* C19: reversing with the source collection loaded, an override emitted for
\* an http step bound to an endpoint names a parameter the endpoint does not
\* declare, or gives a value other than the declared one.
C19_OverridesDifferFromDefinition ==
    (cpc = "reversed" /\ reversedYaml[1].source_apidog /\ onlyHttp(yamlFile)
        /\ Len(reversedYaml[1].steps) = Len(outputFile[1].steps)) =>
        \A i \in 1..Len(outputFile[1].steps) :
            \A api \in boundEndpoints(outputFile[1].steps[i]) :
                \A kind \in ParamKinds :
                    \A o \in Range(overridesOf(reversedYaml[1].steps[i], kind)) :
                        \A d \in Range(api.parameters[kind]) :
                            d.name = o.name => o.value # d.value

-----------------------------------------------------------------------------
(* Claims about the final sort *)

presentItems(items) == SelectSeq(items, LAMBDA it : it # Null)

ascending(items) ==
    \A i \in 1..(Len(items) - 1) : orderingOf(items[i]) <= orderingOf(items[i + 1])

\* the items are in ascending order and those of one ordering are the ones
\* there were before, in the order they had
sortedStably(before, after) ==
    /\ ascending(presentItems(after))
    /\ \A o \in {orderingOf(it) : it \in Range(presentItems(before))
                                        \cup Range(presentItems(after))} :
          SelectSeq(presentItems(after), LAMBDA it : orderingOf(it) = o)
              = SelectSeq(presentItems(before), LAMBDA it : orderingOf(it) = o)

RECURSIVE foldersSorted(_, _)
foldersSorted(before, after) ==
    /\ Len(after) = Len(before)
    /\ \A i \in 1..Len(before) :
          /\ sortedStably(before[i].items, after[i].items)
          /\ foldersSorted(before[i].children, after[i].children)

\* C20: the merge's last step leaves the items of the root and of every
\* folder, at every nesting level, in ascending order of `ordering` (0 when
\* missing), items of equal ordering in the order they had before it.
C20_EveryFolderSorted ==
    [][(pc = "merging" /\ pc' = "written") =>
          foldersSorted(apidogData.apiTestCaseCollection,
                        apidogData'.apiTestCaseCollection)]_vars

-----------------------------------------------------------------------------
(* Claims about folders *)

\* the child folders of the root named f
foldersNamed(doc, f) ==
    IF doc.apiTestCaseCollection = <<>> THEN 0
    ELSE Cardinality({c \in 1..Len(rootOf(doc).children) : rootOf(doc).children[c].name = f})

FolderNames == {"F", "G", "H"}

\* C21: no step of the merger adds a child folder named f to a root that has
\* one: the number of folders named f grows only from 0 to 1, in every run.
C21_FolderCreatedOnce ==
    [][\A f \in FolderNames :
          /\ foldersNamed(apidogData', f) > foldersNamed(apidogData, f) =>
                /\ foldersNamed(apidogData, f) = 0
                /\ foldersNamed(apidogData', f) = 1
          /\ foldersNamed(apidogFile', f) > foldersNamed(apidogFile, f) =>
                /\ foldersNamed(apidogFile, f) = 0
                /\ foldersNamed(apidogFile', f) = 1]_vars

\* the second run is over, two incoming test cases name a folder the base
\* collection did not have, and the folder is there once
C21_Witness ==
    /\ pc = "written"
    /\ runs = 2
    /\ Len(testCases) = 2
    /\ \A k \in 1..2 : testCases[k].folder = "H"
    /\ foldersNamed(apidogFile, "H") = 1

-----------------------------------------------------------------------------
(* Claims about the merger's allocator *)

\* the places of a processed test case whose id getNextId gave: a kept id is
\* the incoming one, a minted id is not (the incoming one was in use)
mintedAt(in, out) == {k \in 1..Len(in) : out[k] # in[k]}

\* v is new at place k: it is no id kept at an earlier place, and a place
\* that got another minted id before got a smaller one
freshAt(in, out, k) ==
    \A j \in 1..(k - 1) :
        /\ out[j] = in[j] => out[j] # out[k]
        /\ (out[j] # in[j] /\ out[j] # out[k]) => out[j] < out[k]

\* C22: every id the allocator gives while a test case is merged is not an id
\* of the existing collection, not in the used set (ids kept or given
\* before), not an id kept earlier in the same test case, and lies between
\* the allocator's position before and after; the used set only grows.
C22_MintedIdsFresh ==
    [][(pc = "merging" /\ cursor' = cursor + 1) =>
          LET in  == itemIds(testCases[cursor + 1])
              out == itemIds(processedTestCase'[1])
          IN  /\ usedIds \subseteq usedIds'
              /\ Len(out) = Len(in)
              /\ \A k \in mintedAt(in, out) :
                    /\ out[k] \notin Range(documentIds(sourceDoc))
                    /\ out[k] \notin usedIds
                    /\ out[k] \in usedIds'
                    /\ nextId <= out[k]
                    /\ out[k] < nextId'
                    /\ freshAt(in, out, k)]_vars

\* the second test case merged got an id from the allocator, which had to
\* pass over an id of the existing collection
C22_Witness ==
    /\ pc = "merging"
    /\ cursor = 2
    /\ MergerFirstId \in Range(documentIds(sourceDoc))
    /\ mintedAt(itemIds(testCases[2]), itemIds(processedTestCase[1])) # {}
    /\ processedTestCase[1].id > MergerFirstId

-----------------------------------------------------------------------------
(* Claims about parameter overrides *)

\* the declared parameters an override of that kind matches: by name, for a
\* header whatever the case of the letters
matchedBy(declared, override, kind) ==
    {k \in 1..Len(declared) :
        IF kind = "header"
        THEN toLowerCase(declared[k].name) = toLowerCase(override.name)
        ELSE declared[k].name = override.name}

\* what one override makes of the declared parameters
overridden(declared, override, kind) ==
    LET hits == matchedBy(declared, override, kind)
    IN  IF hits = {}
        THEN nameValue(declared)
             \o (IF override.value = None THEN <<>>
                 ELSE <<[name |-> override.name, value |-> override.value]>>)
        ELSE IF override.value = None
        THEN nameValue(SubSeq(declared, 1, Min(hits) - 1)
                       \o SubSeq(declared, Min(hits) + 1, Len(declared)))
        ELSE nameValue([declared EXCEPT ![Min(hits)].value = override.value])

\* C23: an override of a step bound to an endpoint updates or removes the
\* declared parameter of its name (for a header: of its name ignoring case),
\* and when there is none it adds a parameter, or with a null value changes
\* nothing.
C23_HeaderNamesIgnoreCase ==
    (cpc = "done" /\ yamlFile.source_apidog /\ onlyHttp(yamlFile)) =>
        \A i \in 1..Len(yamlFile.steps) :
            \A api \in boundEndpoints(outputFile[1].steps[i]) :
                \A kind \in ParamKinds :
                    (/\ Len(overridesOf(yamlFile.steps[i], kind)) = 1
                     /\ yamlFile.steps[i].user_agent = None) =>
                        nameValue(outputFile[1].steps[i].httpApiCase.parameters[kind])
                            = overridden(api.parameters[kind],
                                         overridesOf(yamlFile.steps[i], kind)[1], kind)

\* a header override written in capitals has updated the header declared in
\* small letters and added none
C23_Witness ==
    /\ cpc = "done"
    /\ Len(yamlFile.steps) = 1
    /\ yamlFile.steps[1].type = "http"
    /\ yamlFile.steps[1].name = Some("lookup")
    /\ yamlFile.steps[1].header_params_override = <<Override("K", Some("x"))>>
    /\ nameValue(outputFile[1].steps[1].httpApiCase.parameters.header)
          = <<[name |-> "k", value |-> Some("x")]>>

-----------------------------------------------------------------------------
(* Claims about the coverage comparator *)

PathParameters == {"{id}"}

\* the concrete path gives a segment for every segment of the template, the
\* same one where the template has no parameter
instantiates(template, concrete) ==
    /\ Len(concrete) = Len(template)
    /\ \A i \in 1..Len(template) :
          template[i] = concrete[i] \/ template[i] \in PathParameters

\* a step of a test-case file names the endpoint's method and a path that
\* instantiates the endpoint's path
usedByStep(endpoint) ==
    \E f \in 1..Len(testFiles) :
        \E i \in 1..Len(testFiles[f]) :
            /\ testFiles[f][i].path # None
            /\ instantiates(endpoint.path, testFiles[f][i].path[1])
            /\ toUpperCase(orDefault(testFiles[f][i].method, "GET")) = endpoint.method

listedIn(groups, endpoint) ==
    \E tag \in DOMAIN groups : \E k \in 1..Len(groups[tag]) : groups[tag][k] = endpoint

\* C24: an endpoint of the OpenAPI document whose method and path, the path
\* parameters instantiated, a test step uses is reported as tested.
C24_TemplatedPathsTested ==
    kpc = "reported" =>
        \A e \in Range(openApiEndpoints) :
            usedByStep(e) => listedIn(report[1].tested, e)

\* the number of endpoints listed under the tags
listedCount(groups) ==
    Cardinality(UNION {{<<tag, k>> : k \in 1..Len(groups[tag])} : tag \in DOMAIN groups})

\* C30: in the report, tested and untested add up to total, tested is at
\* most total, and tested is the number of endpoints listed as tested.
C30_SummaryAddsUp ==
    kpc = "reported" =>
        /\ report[1].summary.tested + report[1].summary.untested = report[1].summary.total
        /\ report[1].summary.tested <= report[1].summary.total
        /\ report[1].summary.tested = listedCount(report[1].tested)

\* the steps of a test case in depth-first pre-order
RECURSIVE preorder(_)
preorder(steps) ==
    IF steps = <<>> THEN <<>>
    ELSE <<Head(steps)>>
         \o (IF "children" \in DOMAIN Head(steps) THEN preorder(Head(steps).children)
             ELSE <<>>)
         \o preorder(Tail(steps))

\* the link step names a test case of the source collection and a step
\* number, and carries no overrides
numberedLink(step) ==
    /\ step.type = "link"
    /\ step.link_to # None
    /\ step.link_step # 0
    /\ step.query_params_override = <<>>
    /\ \E t \in Range(sourceTestCases) : t.name = step.link_to[1]

\* C25: a link step naming step number n yields the first step numbered n in
\* the pre-order walk of the referenced test case, and when the test case has
\* no step numbered n the conversion fails.
C25_MissingLinkStepFails ==
    (cpc \in {"done", "failed"} /\ yamlFile.source_apidog /\ Len(yamlFile.steps) = 1
        /\ numberedLink(yamlFile.steps[1])) =>
        LET t     == CHOOSE t \in Range(sourceTestCases) : t.name = yamlFile.steps[1].link_to[1]
            walk  == preorder(t.steps)
            found == {k \in 1..Len(walk) : walk[k].number = yamlFile.steps[1].link_step}
        IN  IF found = {} THEN cpc = "failed"
            ELSE /\ cpc = "done"
                 /\ Len(outputFile[1].steps) = 1
                 /\ [outputFile[1].steps[1] EXCEPT !.number = 0]
                       = [walk[Min(found)] EXCEPT !.number = 0]

-----------------------------------------------------------------------------
(* Claims about the endpoint index *)

\* the first endpoint of the collection, in indexing order, with that path
\* and, when a method is given, that method in whatever case
firstDeclared(entries, method, path) ==
    LET hits == {k \in 1..Len(entries) :
                    /\ entries[k].item.api.path = path
                    /\ method # None =>
                          toLowerCase(entries[k].item.api.method) = toLowerCase(method[1])}
    IN  entries[Min(hits)].item.api

\* C26: once the source collection is indexed, looking up the path of any of
\* its endpoints, with the endpoint's method in small or capital letters or
\* with no method, finds the first endpoint of the collection that declares
\* that path (and method).
C26_IndexLosesNoEndpoint ==
    (cpc \in {"converting", "done"} /\ yamlFile.source_apidog) =>
        \A e \in Range(apiEntries(sourceFile.apiCollection, <<>>)) :
            \A m \in {None, Some(e.item.api.method), Some(toUpperCase(e.item.api.method))} :
                /\ findApiByMethodAndPath(converter, m, Some(e.item.api.path)) # 0
                /\ apiOf(converter,
                         findApiByMethodAndPath(converter, m, Some(e.item.api.path))).id
                      = firstDeclared(apiEntries(sourceFile.apiCollection, <<>>), m,
                                      e.item.api.path).id

-----------------------------------------------------------------------------
(* Claims about the inversion of operators *)

\* the five pairs of the inversion table
InversionTable ==
    {<<"equal", "notEqual">>, <<"greater", "lessOrEqual">>, <<"less", "greaterOrEqual">>,
     <<"contains", "notContains">>, <<"exists", "notExists">>}

tableInverse(op) ==
    IF \E p \in InversionTable : p[1] = op
    THEN (CHOOSE p \in InversionTable : p[1] = op)[2]
    ELSE IF \E p \in InversionTable : p[2] = op
    THEN (CHOOSE p \in InversionTable : p[2] = op)[1]
    ELSE "notEqual"

\* the document is one `if` step whose only child is an `else`
ifWithElse(doc) ==
    /\ Len(doc.steps) = 1
    /\ doc.steps[1].type = "if"
    /\ Len(doc.steps[1].children) = 1
    /\ doc.steps[1].children[1].type = "else"

\* the operator of the node emitted for the else child
elseOperator == outputFile[1].steps[1].children[1].parameters.operator

\* C27: the else child's operator is the table's inverse of the if step's
\* operator, notEqual for every operator that is not in the table, and for
\* the ten operators of the table inverting it gives the if step's operator
\* back.
C27_InversionTable ==
    (cpc = "done" /\ ifWithElse(yamlFile)) =>
        LET op == orDefault(yamlFile.steps[1].condition.operator, "equal")
        IN  /\ elseOperator = tableInverse(op)
            /\ (\E p \in InversionTable : op \in {p[1], p[2]}) =>
                  invertOperator(elseOperator) = op

-----------------------------------------------------------------------------
(* Claims about the temp folder *)

\* the items of the place a test case of that folder tag is merged into
targetItems(doc, folderName) ==
    IF folderName = "" THEN rootOf(doc).items
    ELSE Flatten([c \in 1..Len(rootOf(doc).children) |->
                     IF rootOf(doc).children[c].name = folderName
                     THEN rootOf(doc).children[c].items ELSE <<>>])

\* the written collection has a test case of the file's name at its place
inOutput(file, doc) ==
    \E k \in 1..Len(targetItems(doc, file.folder)) :
        /\ targetItems(doc, file.folder)[k] # Null
        /\ targetItems(doc, file.folder)[k].name = file.name

\* C28: a file leaves the temp folder only once the merged collection is
\* written, and only a file that was loaded and whose test case the written
\* collection contains.
C28_OnlyMergedFilesDeleted ==
    [][tempFiles' # tempFiles =>
          /\ pc = "written"
          /\ \A k \in 1..Len(tempFiles) :
                tempFiles[k] \notin Range(tempFiles') =>
                    /\ validTestCase(tempFiles[k])
                    /\ inOutput(tempFiles[k], apidogFile)]_vars

-----------------------------------------------------------------------------
(* Claims about declared paths *)

\* C29: an http step that declares a path is converted to a step with that
\* path, and with the method it declares (in whatever case), however its
\* endpoint was resolved.
C29_DeclaredPathKept ==
    (cpc = "done" /\ onlyHttp(yamlFile)) =>
        \A i \in 1..Len(yamlFile.steps) :
            yamlFile.steps[i].path # None =>
                /\ outputFile[1].steps[i].httpApiCase.path = yamlFile.steps[i].path[1]
                /\ yamlFile.steps[i].method # None =>
                      toLowerCase(outputFile[1].steps[i].httpApiCase.method)
                          = toLowerCase(yamlFile.steps[i].method[1])

====
